---- MODULE Spec2Model ----
(***************************************************************************)
(* The StateChain Entity's transfer protocol (server/src/protocol/          *)
(* transfer.rs) over its relational store (server/src/storage/db.rs).      *)
(*                                                                         *)
(* Every store call of a handler is one atomic step (the store runs each   *)
(* statement in autocommit; no handler opens a transaction), so the state  *)
(* after every individual store write is a state of the model.  Tables are *)
(* sets of rows; the PRIMARY KEY of a table is enforced by the insert.     *)
(* An optional column or value is <<>> (NULL / None) or <<v>> (Some(v)).   *)
(***************************************************************************)
EXTENDS Integers, Sequences, FiniteSets, TLC

VARIABLES
    userSession,    \* Table::UserSession rows
    ecdsa,          \* Table::Ecdsa rows
    stateChain,     \* Table::StateChain rows
    transfer,       \* Table::Transfer rows (TransferData)
    transferBatch,  \* Table::TransferBatch rows
    backupTxs,      \* Table::BackupTxs rows
    root,           \* Table::Root rows
    rootSerial,     \* the BIGSERIAL sequence of Table::Root
    now,            \* the wall clock (Utc::now)
    nextUuid,       \* how many Uuid::new_v4() values have been minted
    req             \* per worker thread: the request it serves and its position

vars == <<userSession, ecdsa, stateChain, transfer, transferBatch, backupTxs,
          root, rootSerial, now, nextUuid, req>>

store == <<userSession, ecdsa, stateChain, transfer, transferBatch, backupTxs,
           root, rootSerial>>

-----------------------------------------------------------------------------
(* Bounds of the model *)

\* the clock runs from 0 to MaxTime
MaxTime == 2
\* at most MaxUuid calls of Uuid::new_v4()
MaxUuid == 2
\* at most MaxRoots rows in Table::Root when root_update is called on its own
MaxRoots == 3

(* Program constants, scaled *)

\* the group order FE::q() (a small prime in place of secp256k1's)
Q == 11
\* config.batch_lifetime and config.punishment_duration, in clock ticks
BatchLifetime == 1
PunishmentDuration == 1

-----------------------------------------------------------------------------
(* Values *)

None == <<>>
Some(v) == <<v>>
IsSome(o) == o # <<>>
Unwrap(o) == o[1]

Workers == {1, 2}
Uuids == 1..MaxUuid
\* the state chains, the batches and the proof keys of the model
ChainIds == {1}
BatchIds == {1}
Keys == {1, 2}
\* outpoints: state chain i is funded by txid i; 2 is some other outpoint
Txids == {1, 2}
\* the public shares o2*G a client may send: 3 is consistent with s2 = 2,
\* 7 with no s2 below q/3
O2Pubs == {3, 7}
\* nonzero scalars FE (a curve point GE is written as its discrete log to G)
Scalars == 1..(Q - 1)

\* an ECDSA signature: who signed, and the message sha256(purpose || data)
Signatures == [signer : Keys, purpose : {"TRANSFER"}, data : Keys]
StateChainSigs == [purpose : {"TRANSFER"}, data : Keys, sig : Signatures]
\* a new backup transaction: the txid of input 0's previous output and the
\* payee, the new owner's key 2 (a deposit's backup pays the depositor, key 1)
Transactions == [txid : Txids, addr : {2}]

-----------------------------------------------------------------------------
(* Generic store operations *)

HasRow(table, id) == \E r \in table : r.id = id
Row(table, id) == CHOOSE r \in table : r.id = id
\* UPDATE .. WHERE id: every row with that id is replaced
UpdateRow(table, id, new) == {IF r.id = id THEN new ELSE r : r \in table}
\* DELETE .. WHERE id
RemoveRow(table, id) == {r \in table : r.id # id}
\* does the PRIMARY KEY (id) let a row with this id in?
InsertAllowed(table, id) == ~HasRow(table, id)

\* PGDatabase::get: the row, or NoDataForID when the query returns no row
Get(table, id) ==
    IF HasRow(table, id)
    THEN [err |-> "", row |-> <<Row(table, id)>>]
    ELSE [err |-> "NoDataForID", row |-> <<>>]

\* PGDatabase::update: UpdateFailed when the statement changes no row
Update(table, id, column, data) ==
    IF HasRow(table, id)
    THEN [err |-> "",
          table |-> {IF r.id = id THEN [r EXCEPT ![column] = data] ELSE r :
                     r \in table}]
    ELSE [err |-> "UpdateFailed", table |-> table]

\* (variant) a DELETE that removes no row is no error
RemoveIgnoreMissing(table, id) ==
    [err |-> "", table |-> RemoveRow(table, id)]

\* PGDatabase::remove: UpdateFailed when the statement removes no row
Remove(table, id) ==
    IF HasRow(table, id)
    THEN [err |-> "", table |-> RemoveRow(table, id)]
    ELSE [err |-> "UpdateFailed", table |-> table]

-----------------------------------------------------------------------------
(* Scalars and points.  A point k*G is written k, so that scalar            *)
(* multiplication of a point is multiplication mod Q.                       *)

FeMul(a, b) == (a * b) % Q
FeInvert(a) == CHOOSE y \in Scalars : (a * y) % Q = 1
GeMul(p, k) == (p * k) % Q
QThird == Q \div 3

-----------------------------------------------------------------------------
(* The statechain ledger and the clock helpers of the shared library        *)

\* StateChainSig::verify: the signature is by pk, over sha256(purpose || data)
Verify(pk, scsig) ==
    /\ scsig.sig.signer = pk
    /\ scsig.sig.purpose = scsig.purpose
    /\ scsig.sig.data = scsig.data

\* the first entry of a chain: the depositor's proof key, self-signed
FirstEntry(pk) ==
    [purpose |-> "TRANSFER", data |-> pk,
     sig |-> [signer |-> pk, purpose |-> "TRANSFER", data |-> pk]]

\* StateChain::add: Some(extended chain), or None when the entry is rejected
StateChainAdd(chain, scsig) ==
    IF Len(chain) > 0 /\ Verify(chain[Len(chain)].data, scsig)
    THEN Some(Append(chain, scsig))
    ELSE None

\* is_locked: an error while locked_until is later than the current time
IsLocked(locked_until, t) == t < locked_until

\* transfer_batch_is_ended
TransferBatchIsEnded(start_time, lifetime, t) == t - start_time > lifetime

-----------------------------------------------------------------------------
(* Requests.  A worker thread serves one request at a time; the fields are   *)
(* the message it received and the locals of the handler.                   *)

IdleReq ==
    [kind |-> "none", pc |-> "idle", err |-> "",
     user_id |-> 0, state_chain_id |-> 0, sig |-> None,
     tx_backup |-> None, batch_id |-> 0,
     x1 |-> 0, s1 |-> 0, s2 |-> 0, new_id |-> 0,
     chain |-> <<>>, tbd |-> None, smt |-> None, root_id |-> 0, rt |-> None]

\* the worker has no request in progress
Free(w) == req[w].pc \in {"idle", "ok", "err"}
Quiet == \A w \in Workers : Free(w)

\* return Err(e): the locals are dropped; what stays is the request (who
\* asked, for which state chain) and the error
Fail(r, e) ==
    [IdleReq EXCEPT !.kind = r.kind, !.pc = "err", !.err = e,
                    !.user_id = r.user_id, !.state_chain_id = r.state_chain_id]

\* return Ok(..): the locals are dropped; what stays is the request and the
\* new_shared_key_id of a TransferMsg5
Succeed(r) ==
    [IdleReq EXCEPT !.kind = r.kind, !.pc = "ok", !.new_id = r.new_id,
                    !.user_id = r.user_id, !.state_chain_id = r.state_chain_id]

Goto(r, pc) == [r EXCEPT !.pc = pc]

-----------------------------------------------------------------------------
(* Rows *)

\* INSERT INTO usersession (id): every other column NULL
NewUserSessionRow(id) ==
    [id |-> id, statechainid |-> None, authentication |-> None,
     proofkey |-> None, txbackup |-> None, s2 |-> None]

\* INSERT INTO transfer (id)
NewTransferRow(id) == [id |-> id, statechainsig |-> None, x1 |-> None]

\* (variant) a new state chain is locked for one tick of the clock
CreateStatechainRowLocked(state_chain_id, user_id, chain, amount, t) ==
    [id |-> state_chain_id, chain |-> chain, amount |-> amount,
     lockeduntil |-> t + 1, ownerid |-> user_id]

\* create_statechain: the row a deposit writes
CreateStatechainRow(state_chain_id, user_id, chain, amount, t) ==
    [id |-> state_chain_id, chain |-> chain, amount |-> amount,
     lockeduntil |-> t, ownerid |-> user_id]

\* the sparse Merkle tree behind a root: funding txid -> proof key (0: absent)
EmptySmt == [t \in Txids |-> 0]

\* root_get_current_id: SELECT MAX(id), 0 on an empty table
RootGetCurrentId == IF root = {} THEN 0
                    ELSE CHOOSE i \in {r.id : r \in root} :
                            \A j \in {r.id : r \in root} : j <= i

\* the tree of the current root (the empty tree when there is no root yet)
CurrentSmt == IF root = {} THEN EmptySmt
              ELSE (CHOOSE r \in root : r.id = RootGetCurrentId).value

\* root_insert: INSERT INTO root (value, commitmentinfo); the id is the serial's
RootInsert(value, ci) ==
    /\ root' = root \cup {[id |-> rootSerial + 1, value |-> value,
                           commitmentinfo |-> ci]}
    /\ rootSerial' = rootSerial + 1

-----------------------------------------------------------------------------
(* Initial state: empty tables, idle workers *)

Init ==
    /\ userSession = {}
    /\ ecdsa = {}
    /\ stateChain = {}
    /\ transfer = {}
    /\ transferBatch = {}
    /\ backupTxs = {}
    /\ root = {}
    /\ rootSerial = 0
    /\ now = 0
    /\ nextUuid = 0
    /\ req = [w \in Workers |-> IdleReq]

\* the clock advances
Tick ==
    /\ now < MaxTime
    /\ now' = now + 1
    /\ UNCHANGED <<store, nextUuid, req>>

\* a completed deposit (deposit_init, keygen, deposit_confirm): a new user
\* session with its key shares, a new state chain owned by it, its backup
\* transaction, and the root of the tree with (funding txid -> proof key)
Deposit(proof_key, s1, p2) ==
    LET user_id == nextUuid + 1
        state_chain_id == Cardinality(stateChain) + 1
    IN  /\ nextUuid < MaxUuid
        /\ state_chain_id \in ChainIds
        /\ nextUuid' = user_id
        /\ userSession' = userSession \cup
              {[NewUserSessionRow(user_id) EXCEPT
                    !.authentication = Some("auth"),
                    !.proofkey = Some(proof_key),
                    !.statechainid = Some(state_chain_id),
                    !.txbackup = Some([txid |-> state_chain_id, addr |-> proof_key])]}
        /\ ecdsa' = ecdsa \cup
              {[id |-> user_id, party1private |-> Some(s1), party2public |-> Some(p2)]}
        /\ stateChain' = stateChain \cup
              {CreateStatechainRow(state_chain_id, user_id,
                                   <<FirstEntry(proof_key)>>, 1, now)}
        /\ backupTxs' = backupTxs \cup
              {[id |-> state_chain_id,
                txbackup |-> Some([txid |-> state_chain_id, addr |-> proof_key])]}
        /\ RootInsert([CurrentSmt EXCEPT ![state_chain_id] = proof_key], None)
        /\ UNCHANGED <<transfer, transferBatch, now, req>>

\* a deposit is begun (deposit_init): a new user session with its proof key,
\* bound to no state chain yet
DepositInit(proof_key) ==
    /\ nextUuid < MaxUuid
    /\ nextUuid' = nextUuid + 1
    /\ userSession' = userSession \cup
          {[NewUserSessionRow(nextUuid + 1) EXCEPT
                !.authentication = Some("auth"),
                !.proofkey = Some(proof_key)]}
    /\ UNCHANGED <<ecdsa, stateChain, transfer, transferBatch, backupTxs,
                   root, rootSerial, now, req>>

-----------------------------------------------------------------------------
(* transfer_sender, one action per store call.  The fields of a message are *)
(* fixed when it arrives; the model draws a field at the step where the     *)
(* handler first reads it.                                                  *)

\* a /transfer/sender request arrives at a free worker
StartSender(w, shared_key_id) ==
    /\ Free(w)
    /\ req' = [req EXCEPT ![w] =
                 [IdleReq EXCEPT !.kind = "sender", !.pc = "check_user_auth",
                                 !.user_id = shared_key_id]]
    /\ UNCHANGED <<store, now, nextUuid>>

\* (variant) a request without a bound session goes on for state chain 1
SenderAuthDefaultChain(w) ==
    LET r == req[w] IN
    /\ r.kind = "sender" /\ r.pc = "check_user_auth"
    /\ req' = [req EXCEPT ![w] =
          [r EXCEPT !.pc = "transfer_is_completed",
                    !.state_chain_id =
                        IF HasRow(userSession, r.user_id)
                           /\ IsSome(Row(userSession, r.user_id).statechainid)
                        THEN Unwrap(Row(userSession, r.user_id).statechainid)
                        ELSE 1]]
    /\ UNCHANGED <<store, now, nextUuid>>

\* check_user_auth (get_user_auth), then get_statechain_id: both read the
\* request's own user session row
SenderAuth(w) ==
    LET r == req[w] IN
    /\ r.kind = "sender" /\ r.pc = "check_user_auth"
    /\ req' = [req EXCEPT ![w] =
          IF ~HasRow(userSession, r.user_id) THEN Fail(r, "AuthError")
          ELSE IF ~IsSome(Row(userSession, r.user_id).statechainid)
               THEN Fail(r, "NoDataForID")
               ELSE [r EXCEPT !.pc = "transfer_is_completed",
                              !.state_chain_id =
                                  Unwrap(Row(userSession, r.user_id).statechainid)]]
    /\ UNCHANGED <<store, now, nextUuid>>

\* (variant) the check for a pending transfer left out
TransferIsCompletedNever(state_chain_id) == FALSE

\* transfer_is_completed: is there a Transfer row with this id?
TransferIsCompleted(state_chain_id) == HasRow(transfer, state_chain_id)

\* (variant) a pending transfer is dropped and the request goes on
SenderIsCompletedReplace(w) ==
    LET r == req[w] IN
    /\ r.kind = "sender" /\ r.pc = "transfer_is_completed"
    /\ transfer' = RemoveRow(transfer, r.state_chain_id)
    /\ req' = [req EXCEPT ![w] = Goto(r, "get_statechain_owner")]
    /\ UNCHANGED <<userSession, ecdsa, stateChain, transferBatch, backupTxs,
                   root, rootSerial, now, nextUuid>>

SenderIsCompleted(w) ==
    LET r == req[w] IN
    /\ r.kind = "sender" /\ r.pc = "transfer_is_completed"
    /\ req' = [req EXCEPT ![w] =
          IF TransferIsCompleted(r.state_chain_id)
          THEN Fail(r, "TransferAlreadyCompleted")
          ELSE Goto(r, "get_statechain_owner")]
    /\ UNCHANGED <<store, now, nextUuid>>

\* (variant) locked up to and including locked_until
SenderOwnerCheckLockedAtBoundary(sco, user_id, t) ==
    IF t <= sco.lockeduntil THEN "StateChainLocked"
    ELSE IF sco.ownerid # user_id THEN "NotOwner"
    ELSE "ok"

\* (variant) the owner comparison left out
SenderOwnerCheckAnyUser(sco, user_id, t) ==
    IF IsLocked(sco.lockeduntil, t) THEN "StateChainLocked" ELSE "ok"

\* the checks on the StateChainOwner just read: not locked, owned by the user
SenderOwnerCheck(sco, user_id, t) ==
    IF IsLocked(sco.lockeduntil, t) THEN "StateChainLocked"
    ELSE IF sco.ownerid # user_id THEN "NotOwner"
    ELSE "ok"

SenderGetOwner(w) ==
    LET r == req[w] IN
    /\ r.kind = "sender" /\ r.pc = "get_statechain_owner"
    /\ req' = [req EXCEPT ![w] =
          IF ~HasRow(stateChain, r.state_chain_id) THEN Fail(r, "NoDataForID")
          ELSE LET c == SenderOwnerCheck(Row(stateChain, r.state_chain_id),
                                         r.user_id, now)
               IN IF c # "ok" THEN Fail(r, c)
                  ELSE Goto(r, "create_transfer_insert")]
    /\ UNCHANGED <<store, now, nextUuid>>

\* create_transfer, first statement: INSERT INTO transfer (id).  x1 has been
\* drawn at random just before.
SenderCreateTransferInsert(w, x1) ==
    LET r == req[w] IN
    /\ r.kind = "sender" /\ r.pc = "create_transfer_insert"
    /\ IF InsertAllowed(transfer, r.state_chain_id)
       THEN /\ transfer' = transfer \cup {NewTransferRow(r.state_chain_id)}
            /\ req' = [req EXCEPT ![w] =
                         [r EXCEPT !.pc = "create_transfer_update", !.x1 = x1]]
       ELSE /\ transfer' = transfer
            /\ req' = [req EXCEPT ![w] = Fail(r, "DBError")]
    /\ UNCHANGED <<userSession, ecdsa, stateChain, transferBatch, backupTxs,
                   root, rootSerial, now, nextUuid>>

\* (variant) the sender's session is unbound from the state chain once the
\* transfer is stored
SenderCreateTransferUpdateUnbind(w, state_chain_sig) ==
    LET r == req[w] IN
    /\ r.kind = "sender" /\ r.pc = "create_transfer_update"
    /\ IF HasRow(transfer, r.state_chain_id)
       THEN /\ transfer' = UpdateRow(transfer, r.state_chain_id,
                              [id |-> r.state_chain_id,
                               statechainsig |-> Some(state_chain_sig),
                               x1 |-> Some(r.x1)])
            /\ req' = [req EXCEPT ![w] = Goto(r, "get_proof_key")]
       ELSE /\ transfer' = transfer
            /\ req' = [req EXCEPT ![w] = Fail(r, "UpdateFailed")]
    /\ userSession' = {IF u.id = r.user_id
                       THEN [u EXCEPT !.statechainid = None] ELSE u :
                       u \in userSession}
    /\ UNCHANGED <<ecdsa, stateChain, transferBatch, backupTxs,
                   root, rootSerial, now, nextUuid>>

\* create_transfer, second statement: UPDATE transfer SET statechainsig, x1
SenderCreateTransferUpdate(w, state_chain_sig) ==
    LET r == req[w] IN
    /\ r.kind = "sender" /\ r.pc = "create_transfer_update"
    /\ IF HasRow(transfer, r.state_chain_id)
       THEN /\ transfer' = UpdateRow(transfer, r.state_chain_id,
                              [id |-> r.state_chain_id,
                               statechainsig |-> Some(state_chain_sig),
                               x1 |-> Some(r.x1)])
            /\ req' = [req EXCEPT ![w] = Goto(r, "get_proof_key")]
       ELSE /\ transfer' = transfer
            /\ req' = [req EXCEPT ![w] = Fail(r, "UpdateFailed")]
    /\ UNCHANGED <<userSession, ecdsa, stateChain, transferBatch, backupTxs,
                   root, rootSerial, now, nextUuid>>

\* a stored proof key that is no public key
BadKey == 0
\* ecies::PublicKey::from_str on the stored proof key
ProofKeyFromStrOk(proof_key) == proof_key \in Keys

\* (variant) the reply step also moves locked_until of the state chain on
SenderGetProofKeyLocking(w) ==
    LET r == req[w] IN
    /\ r.kind = "sender" /\ r.pc = "get_proof_key"
    /\ req' = [req EXCEPT ![w] =
          IF ~(HasRow(userSession, r.user_id)
               /\ IsSome(Row(userSession, r.user_id).proofkey))
          THEN Fail(r, "NoDataForID")
          ELSE IF ~ProofKeyFromStrOk(Unwrap(Row(userSession, r.user_id).proofkey))
               THEN Fail(r, "SharedLibError")
               ELSE Succeed(r)]
    /\ stateChain' = {IF sc.id = r.state_chain_id
                      THEN [sc EXCEPT !.lockeduntil = now + 1] ELSE sc :
                      sc \in stateChain}
    /\ UNCHANGED <<userSession, ecdsa, transfer, transferBatch, backupTxs,
                   root, rootSerial, now, nextUuid>>

\* get_proof_key, the key parsed, then the reply TransferMsg2 {x1, proof_key}
SenderGetProofKey(w) ==
    LET r == req[w] IN
    /\ r.kind = "sender" /\ r.pc = "get_proof_key"
    /\ req' = [req EXCEPT ![w] =
          IF ~(HasRow(userSession, r.user_id)
               /\ IsSome(Row(userSession, r.user_id).proofkey))
          THEN Fail(r, "NoDataForID")
          ELSE IF ~ProofKeyFromStrOk(Unwrap(Row(userSession, r.user_id).proofkey))
               THEN Fail(r, "SharedLibError")
               ELSE Succeed(r)]
    /\ UNCHANGED <<store, now, nextUuid>>

-----------------------------------------------------------------------------
(* transfer_receiver, one action per store call *)

\* a /transfer/receiver request arrives at a free worker
StartReceiver(w, shared_key_id, state_chain_id, state_chain_sig) ==
    /\ Free(w)
    /\ req' = [req EXCEPT ![w] =
                 [IdleReq EXCEPT !.kind = "receiver", !.pc = "get_transfer_data",
                                 !.user_id = shared_key_id,
                                 !.state_chain_id = state_chain_id,
                                 !.sig = Some(state_chain_sig)]]
    /\ nextUuid < MaxUuid
    /\ UNCHANGED <<store, now, nextUuid>>

\* get_transfer_data reads the row and all three columns: a missing row or a
\* NULL column is an error
GetTransferDataOk(state_chain_id) ==
    /\ HasRow(transfer, state_chain_id)
    /\ IsSome(Row(transfer, state_chain_id).statechainsig)
    /\ IsSome(Row(transfer, state_chain_id).x1)

\* (variant) only the data of the two signatures is compared
StateChainSigMatchesDataOnly(td_sig, msg_sig) ==
    IsSome(td_sig) /\ Unwrap(td_sig).data = Unwrap(msg_sig).data

\* "Ensure state_chain_sigs are the same"
StateChainSigMatches(td_sig, msg_sig) == td_sig = msg_sig

ReceiverGetTransferData(w) ==
    LET r == req[w] IN
    /\ r.kind = "receiver" /\ r.pc = "get_transfer_data"
    /\ req' = [req EXCEPT ![w] =
          IF ~GetTransferDataOk(r.state_chain_id) THEN Fail(r, "NoDataForID")
          ELSE LET td == Row(transfer, r.state_chain_id) IN
               IF ~StateChainSigMatches(td.statechainsig, r.sig)
               THEN Fail(r, "StateChainSigMismatch")
               ELSE [r EXCEPT !.pc = "get_ecdsa_keypair",
                              !.x1 = Unwrap(td.x1)]]
    /\ UNCHANGED <<store, now, nextUuid>>

\* (variant) x1 is not inverted
ComputeS2NoInvert(t2, x1, s1) == FeMul(FeMul(t2, x1), s1)

\* s2 = t2 * x1^-1 * s1
ComputeS2(t2, x1, s1) == FeMul(FeMul(t2, FeInvert(x1)), s1)

\* (variant) s2 = q/3 is let through
S2InvalidAbove(s2) == s2 > QThird

\* "Check s2 is valid for Lindell protocol (s2<q/3)"
S2Invalid(s2) == s2 >= QThird

\* (variant) P1 compared with itself
P1EqualsP2Self(party_2_public, s1, o2_pub, s2) ==
    GeMul(party_2_public, s1) = GeMul(party_2_public, s1)

\* "Check P1 = o1_pub*s1 === p2 = o2_pub*s2"
P1EqualsP2(party_2_public, s1, o2_pub, s2) ==
    GeMul(party_2_public, s1) = GeMul(o2_pub, s2)

\* get_ecdsa_keypair, the key rotation and its checks
ReceiverGetEcdsaKeypair(w, t2, o2_pub) ==
    LET r == req[w] IN
    /\ r.kind = "receiver" /\ r.pc = "get_ecdsa_keypair"
    /\ req' = [req EXCEPT ![w] =
          IF ~HasRow(ecdsa, r.user_id)
             \/ ~IsSome(Row(ecdsa, r.user_id).party1private)
             \/ ~IsSome(Row(ecdsa, r.user_id).party2public)
          THEN Fail(r, "NoDataForID")
          ELSE LET kp == Row(ecdsa, r.user_id)
                   s1 == Unwrap(kp.party1private)
                   s2 == ComputeS2(t2, r.x1, s1)
               IN  IF S2Invalid(s2) THEN Fail(r, "InvalidO2")
                   ELSE IF ~P1EqualsP2(Unwrap(kp.party2public), s1, o2_pub, s2)
                   THEN Fail(r, "P1NotEqualP2")
                   ELSE [r EXCEPT !.s1 = s1, !.s2 = s2,
                                  !.pc = "new_shared_key_id"]]
    /\ UNCHANGED <<store, now, nextUuid>>

\* new_shared_key_id = Uuid::new_v4(), the TransferFinalizeData with the
\* message's new backup transaction, and the branch on its batch_data
ReceiverNewSharedKeyId(w, tx_backup, batch_id) ==
    LET r == req[w] IN
    /\ r.kind = "receiver" /\ r.pc = "new_shared_key_id"
    /\ nextUuid < MaxUuid
    /\ nextUuid' = nextUuid + 1
    /\ req' = [req EXCEPT ![w] =
          [r EXCEPT !.new_id = nextUuid + 1,
                    !.tx_backup = Some(tx_backup),
                    !.batch_id = batch_id,
                    !.pc = IF batch_id # 0 THEN "get_finalize_batch_data"
                           ELSE "get_statechain"]]
    /\ UNCHANGED <<store, now>>

\* the TransferFinalizeData the receiver has built
FinalizedData(r) ==
    [new_shared_key_id |-> r.new_id, state_chain_id |-> r.state_chain_id,
     state_chain_sig |-> Unwrap(r.sig), s2 |-> r.s2,
     new_tx_backup |-> Unwrap(r.tx_backup), batch_id |-> r.batch_id]

\* (variant) the lifetime of the batch is not looked at
ReceiverGetFinalizeBatchDataAnyTime(w) ==
    LET r == req[w] IN
    /\ r.kind = "receiver" /\ r.pc = "get_finalize_batch_data"
    /\ req' = [req EXCEPT ![w] =
          IF ~HasRow(transferBatch, r.batch_id) THEN Fail(r, "NoDataForID")
          ELSE LET b == Row(transferBatch, r.batch_id) IN
               [r EXCEPT !.pc = "update_finalize_batch_data",
                         !.tbd = Some([state_chains |-> b.statechains,
                                       finalized_data_vec |-> b.finalizeddata])]]
    /\ UNCHANGED <<store, now, nextUuid>>

\* batch transfer: get_finalize_batch_data, and is the batch still active?
ReceiverGetFinalizeBatchData(w) ==
    LET r == req[w] IN
    /\ r.kind = "receiver" /\ r.pc = "get_finalize_batch_data"
    /\ req' = [req EXCEPT ![w] =
          IF ~HasRow(transferBatch, r.batch_id) THEN Fail(r, "NoDataForID")
          ELSE LET b == Row(transferBatch, r.batch_id) IN
               IF TransferBatchIsEnded(b.starttime, BatchLifetime, now)
               THEN Fail(r, "TransferBatchEnded")
               ELSE [r EXCEPT !.pc = "update_finalize_batch_data",
                              !.tbd = Some([state_chains |-> b.statechains,
                                            finalized_data_vec |-> b.finalizeddata])]]
    /\ UNCHANGED <<store, now, nextUuid>>

\* (variant) the flag of the state chain is left as it was
MapInsertKeep(m, k) == m

\* HashMap::insert(key, true)
MapInsertTrue(m, k) ==
    [x \in (DOMAIN m) \cup {k} |-> IF x = k THEN TRUE ELSE m[x]]

\* tbd.state_chains.insert(id, true); tbd.finalized_data_vec.push(..);
\* update_finalize_batch_data
ReceiverUpdateFinalizeBatchData(w) ==
    LET r == req[w]
        tbd == Unwrap(r.tbd)
    IN
    /\ r.kind = "receiver" /\ r.pc = "update_finalize_batch_data"
    /\ IF HasRow(transferBatch, r.batch_id)
       THEN /\ transferBatch' = UpdateRow(transferBatch, r.batch_id,
                  [Row(transferBatch, r.batch_id) EXCEPT
                      !.statechains = MapInsertTrue(tbd.state_chains, r.state_chain_id),
                      !.finalizeddata = Append(tbd.finalized_data_vec, FinalizedData(r))])
            /\ req' = [req EXCEPT ![w] = Succeed(r)]
       ELSE /\ transferBatch' = transferBatch
            /\ req' = [req EXCEPT ![w] = Fail(r, "UpdateFailed")]
    /\ UNCHANGED <<userSession, ecdsa, stateChain, transfer, backupTxs,
                   root, rootSerial, now, nextUuid>>

-----------------------------------------------------------------------------
(* transfer_finalize, one action per store call *)

\* (variant) the result of state_chain.add is not looked at
FinalizeGetStatechainUnchecked(w) ==
    LET r == req[w] IN
    /\ r.kind = "receiver" /\ r.pc = "get_statechain"
    /\ req' = [req EXCEPT ![w] =
          IF ~HasRow(stateChain, r.state_chain_id) THEN Fail(r, "NoDataForID")
          ELSE [r EXCEPT !.pc = "update_statechain_owner",
                         !.chain = Append(Row(stateChain, r.state_chain_id).chain,
                                          Unwrap(r.sig))]]
    /\ UNCHANGED <<store, now, nextUuid>>

\* get_statechain, then state_chain.add(state_chain_sig)
FinalizeGetStatechain(w) ==
    LET r == req[w] IN
    /\ r.kind = "receiver" /\ r.pc = "get_statechain"
    /\ req' = [req EXCEPT ![w] =
          IF ~HasRow(stateChain, r.state_chain_id) THEN Fail(r, "NoDataForID")
          ELSE LET added == StateChainAdd(Row(stateChain, r.state_chain_id).chain,
                                          Unwrap(r.sig))
               IN IF ~IsSome(added) THEN Fail(r, "StateChainSigInvalid")
                  ELSE [r EXCEPT !.pc = "update_statechain_owner",
                                 !.chain = Unwrap(added)]]
    /\ UNCHANGED <<store, now, nextUuid>>

\* (variant) only the new entry is written as the chain
UpdateStatechainOwnerLastEntry(row, state_chain, new_user_id) ==
    [row EXCEPT !.chain = <<state_chain[Len(state_chain)]>>,
                !.ownerid = new_user_id]

\* update_statechain_owner: UPDATE statechain SET chain, ownerid
UpdateStatechainOwner(row, state_chain, new_user_id) ==
    [row EXCEPT !.chain = state_chain, !.ownerid = new_user_id]

FinalizeUpdateStatechainOwner(w) ==
    LET r == req[w] IN
    /\ r.kind = "receiver" /\ r.pc = "update_statechain_owner"
    /\ IF HasRow(stateChain, r.state_chain_id)
       THEN /\ stateChain' = UpdateRow(stateChain, r.state_chain_id,
                   UpdateStatechainOwner(Row(stateChain, r.state_chain_id),
                                         r.chain, r.new_id))
            /\ req' = [req EXCEPT ![w] = Goto(r, "init_user_session_insert")]
       ELSE /\ stateChain' = stateChain
            /\ req' = [req EXCEPT ![w] = Fail(r, "UpdateFailed")]
    /\ UNCHANGED <<userSession, ecdsa, transfer, transferBatch, backupTxs,
                   root, rootSerial, now, nextUuid>>

\* transfer_init_user_session, first statement: INSERT INTO usersession (id)
FinalizeInitUserSessionInsert(w) ==
    LET r == req[w] IN
    /\ r.kind = "receiver" /\ r.pc = "init_user_session_insert"
    /\ IF InsertAllowed(userSession, r.new_id)
       THEN /\ userSession' = userSession \cup {NewUserSessionRow(r.new_id)}
            /\ req' = [req EXCEPT ![w] = Goto(r, "init_user_session_update")]
       ELSE /\ userSession' = userSession
            /\ req' = [req EXCEPT ![w] = Fail(r, "DBError")]
    /\ UNCHANGED <<ecdsa, stateChain, transfer, transferBatch, backupTxs,
                   root, rootSerial, now, nextUuid>>

\* (variant) the new session is not bound to the state chain
TransferInitUserSessionUnbound(row, state_chain_id, fd) ==
    [row EXCEPT !.authentication = Some("auth"),
                !.proofkey = Some(fd.state_chain_sig.data),
                !.txbackup = Some(fd.new_tx_backup),
                !.s2 = Some(fd.s2)]

\* transfer_init_user_session, second statement: the columns of the new session
TransferInitUserSession(row, state_chain_id, fd) ==
    [row EXCEPT !.authentication = Some("auth"),
                !.proofkey = Some(fd.state_chain_sig.data),
                !.txbackup = Some(fd.new_tx_backup),
                !.statechainid = Some(state_chain_id),
                !.s2 = Some(fd.s2)]

FinalizeInitUserSessionUpdate(w) ==
    LET r == req[w] IN
    /\ r.kind = "receiver" /\ r.pc = "init_user_session_update"
    /\ IF HasRow(userSession, r.new_id)
       THEN /\ userSession' = UpdateRow(userSession, r.new_id,
                   TransferInitUserSession(Row(userSession, r.new_id),
                                           r.state_chain_id, FinalizedData(r)))
            /\ req' = [req EXCEPT ![w] = Goto(r, "update_backup_tx")]
       ELSE /\ userSession' = userSession
            /\ req' = [req EXCEPT ![w] = Fail(r, "UpdateFailed")]
    /\ UNCHANGED <<ecdsa, stateChain, transfer, transferBatch, backupTxs,
                   root, rootSerial, now, nextUuid>>

\* update_backup_tx: UPDATE backuptxs SET txbackup
FinalizeUpdateBackupTx(w) ==
    LET r == req[w] IN
    /\ r.kind = "receiver" /\ r.pc = "update_backup_tx"
    /\ IF HasRow(backupTxs, r.state_chain_id)
       THEN /\ backupTxs' = UpdateRow(backupTxs, r.state_chain_id,
                   [id |-> r.state_chain_id, txbackup |-> r.tx_backup])
            /\ req' = [req EXCEPT ![w] = Goto(r, "update_smt")]
       ELSE /\ backupTxs' = backupTxs
            /\ req' = [req EXCEPT ![w] = Fail(r, "UpdateFailed")]
    /\ UNCHANGED <<userSession, ecdsa, stateChain, transfer, transferBatch,
                   root, rootSerial, now, nextUuid>>

\* the key and the value transfer_finalize hands to update_smt: the txid of
\* the new backup transaction's first input, the data of the last chain entry
SmtUpdate(tree, new_tx_backup, chain) ==
    [tree EXCEPT ![new_tx_backup.txid] = chain[Len(chain)].data]

\* update_smt: reads the current root and computes the new tree
FinalizeUpdateSmt(w) ==
    LET r == req[w] IN
    /\ r.kind = "receiver" /\ r.pc = "update_smt"
    /\ req' = [req EXCEPT ![w] =
          [r EXCEPT !.pc = "root_get_current_id",
                    !.smt = Some(SmtUpdate(CurrentSmt, Unwrap(r.tx_backup), r.chain))]]
    /\ UNCHANGED <<store, now, nextUuid>>

\* root_update of a new root: "new root, update id"
FinalizeRootGetCurrentId(w) ==
    LET r == req[w] IN
    /\ r.kind = "receiver" /\ r.pc = "root_get_current_id"
    /\ req' = [req EXCEPT ![w] =
          [r EXCEPT !.pc = "root_insert", !.root_id = RootGetCurrentId + 1]]
    /\ UNCHANGED <<store, now, nextUuid>>

\* root_update of a new root: "Insert new root"
FinalizeRootInsert(w) ==
    LET r == req[w] IN
    /\ r.kind = "receiver" /\ r.pc = "root_insert"
    /\ RootInsert(Unwrap(r.smt), None)
    /\ req' = [req EXCEPT ![w] = Goto(r, "remove_transfer_data")]
    /\ UNCHANGED <<userSession, ecdsa, stateChain, transfer, transferBatch,
                   backupTxs, now, nextUuid>>

\* (variant) success is reported and the row is left in the table
FinalizeRemoveTransferDataKeep(w) ==
    LET r == req[w] IN
    /\ r.kind = "receiver" /\ r.pc = "remove_transfer_data"
    /\ IF HasRow(transfer, r.state_chain_id)
       THEN /\ transfer' = transfer
            /\ req' = [req EXCEPT ![w] = Succeed(r)]
       ELSE /\ transfer' = transfer
            /\ req' = [req EXCEPT ![w] = Fail(r, "UpdateFailed")]
    /\ UNCHANGED <<userSession, ecdsa, stateChain, transferBatch, backupTxs,
                   root, rootSerial, now, nextUuid>>

\* remove_transfer_data: DELETE FROM transfer WHERE id; no row is an error
FinalizeRemoveTransferData(w) ==
    LET r == req[w] IN
    /\ r.kind = "receiver" /\ r.pc = "remove_transfer_data"
    /\ IF HasRow(transfer, r.state_chain_id)
       THEN /\ transfer' = RemoveRow(transfer, r.state_chain_id)
            /\ req' = [req EXCEPT ![w] = Succeed(r)]
       ELSE /\ transfer' = transfer
            /\ req' = [req EXCEPT ![w] = Fail(r, "UpdateFailed")]
    /\ UNCHANGED <<userSession, ecdsa, stateChain, transferBatch, backupTxs,
                   root, rootSerial, now, nextUuid>>

-----------------------------------------------------------------------------
(* root_update, get_root and get_confirmed_smt_root *)

\* the hashes (trees) and the Root values a caller of root_update may pass:
\* id None for a new root, Some(id) "to update an existing root with mainstay
\* proof"
RootHashes == {[EmptySmt EXCEPT ![1] = k] : k \in Keys}
CommitmentInfos == {None, Some("ci")}
RootArgs == [id : {None} \cup {Some(i) : i \in 0..MaxRoots},
             hash : RootHashes, commitment_info : CommitmentInfos]

\* get_root: Ok(None) for id 0, an error when no row has the id, else the row
GetRoot(id) ==
    IF id = 0 THEN [ok |-> TRUE, root |-> None]
    ELSE IF ~HasRow(root, id) THEN [ok |-> FALSE, root |-> None]
    ELSE [ok |-> TRUE, root |-> Some(Row(root, id))]

\* Root::is_confirmed
IsConfirmed(r) == IsSome(r.commitmentinfo)

\* a root_update(rt) call arrives at a free worker
StartRootUpdate(w, rt) ==
    /\ Free(w)
    /\ req' = [req EXCEPT ![w] =
                 [IdleReq EXCEPT !.kind = "root_update", !.pc = "root_update_id",
                                 !.rt = Some(rt)]]
    /\ UNCHANGED <<store, now, nextUuid>>

\* (variant) the id of a new root is the current id
RootUpdateNewIdCurrent == RootGetCurrentId

\* "new root, update id"
RootUpdateNewId == RootGetCurrentId + 1

\* (variant) the hash of the stored root is not compared
RootUpdateIdAnyHash(w) ==
    LET r == req[w]
        rt == Unwrap(r.rt)
    IN
    /\ r.kind = "root_update" /\ r.pc = "root_update_id"
    /\ req' = [req EXCEPT ![w] =
          IF IsSome(rt.id)
          THEN LET existing_root == GetRoot(Unwrap(rt.id)) IN
               IF ~existing_root.ok THEN Fail(r, "NoDataForID")
               ELSE IF ~IsSome(existing_root.root) THEN Fail(r, "RootNotFound")
               ELSE [r EXCEPT !.pc = "root_update_insert",
                              !.root_id = Unwrap(rt.id)]
          ELSE [r EXCEPT !.pc = "root_update_insert",
                         !.root_id = RootUpdateNewId]]
    /\ UNCHANGED <<store, now, nextUuid>>

\* root_update, "Get previous ID, or use the one specified in root"
RootUpdateId(w) ==
    LET r == req[w]
        rt == Unwrap(r.rt)
    IN
    /\ r.kind = "root_update" /\ r.pc = "root_update_id"
    /\ req' = [req EXCEPT ![w] =
          IF IsSome(rt.id)
          THEN LET existing_root == GetRoot(Unwrap(rt.id)) IN
               IF ~existing_root.ok THEN Fail(r, "NoDataForID")
               ELSE IF ~IsSome(existing_root.root) THEN Fail(r, "RootNotFound")
               ELSE IF Unwrap(existing_root.root).value # rt.hash
                    THEN Fail(r, "RootHashMismatch")
                    ELSE [r EXCEPT !.pc = "root_update_insert",
                                   !.root_id = Unwrap(rt.id)]
          ELSE [r EXCEPT !.pc = "root_update_insert",
                         !.root_id = RootUpdateNewId]]
    /\ UNCHANGED <<store, now, nextUuid>>

\* root_update, "Insert new root": root.set_id(&id); root_insert(root); Ok(id)
RootUpdateInsert(w) ==
    LET r == req[w]
        rt == Unwrap(r.rt)
    IN
    /\ r.kind = "root_update" /\ r.pc = "root_update_insert"
    /\ RootInsert(rt.hash, rt.commitment_info)
    /\ req' = [req EXCEPT ![w] = [Succeed(r) EXCEPT !.root_id = r.root_id]]
    /\ UNCHANGED <<userSession, ecdsa, stateChain, transfer, transferBatch,
                   backupTxs, now, nextUuid>>

\* (variant) the newest root, confirmed or not
RECURSIVE GetConfirmedSmtRootScanNewest(_)
GetConfirmedSmtRootScanNewest(id) ==
    IF id < 1 THEN [ok |-> TRUE, root |-> None]
    ELSE LET g == GetRoot(id) IN
         IF ~g.ok THEN g
         ELSE IF IsSome(g.root) THEN g
         ELSE GetConfirmedSmtRootScanNewest(id - 1)

\* the loop of get_confirmed_smt_root, from id down to 1
RECURSIVE GetConfirmedSmtRootScan(_)
GetConfirmedSmtRootScan(id) ==
    IF id < 1 THEN [ok |-> TRUE, root |-> None]
    ELSE LET g == GetRoot(id) IN
         IF ~g.ok THEN g
         ELSE IF IsSome(g.root) /\ IsConfirmed(Unwrap(g.root)) THEN g
         ELSE GetConfirmedSmtRootScan(id - 1)

\* get_confirmed_smt_root: every call of it is a read
GetConfirmedSmtRoot(w) ==
    LET found == GetConfirmedSmtRootScan(RootGetCurrentId)
        r == [IdleReq EXCEPT !.kind = "get_confirmed_smt_root"]
    IN
    /\ Free(w)
    /\ req' = [req EXCEPT ![w] =
          IF ~found.ok THEN Fail(r, "NoDataForID")
          ELSE [Succeed(r) EXCEPT !.rt =
                   IF IsSome(found.root)
                   THEN Some([id |-> Some(Unwrap(found.root).id),
                              hash |-> Unwrap(found.root).value,
                              commitment_info |-> Unwrap(found.root).commitmentinfo])
                   ELSE None]]
    /\ UNCHANGED <<store, now, nextUuid>>

-----------------------------------------------------------------------------
(* The rest of the protocol, as far as the transfer needs it *)

\* the new owner's key generation after a transfer: the server's share is the
\* s2 of the session, the client's public share is p2
Keygen(user_id, p2) ==
    /\ HasRow(userSession, user_id)
    /\ IsSome(Row(userSession, user_id).s2)
    /\ InsertAllowed(ecdsa, user_id)
    /\ ecdsa' = ecdsa \cup {[id |-> user_id,
                             party1private |-> Row(userSession, user_id).s2,
                             party2public |-> Some(p2)]}
    /\ UNCHANGED <<userSession, stateChain, transfer, transferBatch, backupTxs,
                   root, rootSerial, now, nextUuid, req>>

\* (variant) the start time is not taken from the clock
CreateTransferBatchDataEpoch(batch_id, state_chains, t) ==
    [id |-> batch_id, starttime |-> 0, statechains |-> state_chains,
     finalizeddata |-> <<>>, punishedstatechains |-> <<>>, finalized |-> FALSE]

\* create_transfer_batch_data: the row of a new batch
CreateTransferBatchData(batch_id, state_chains, t) ==
    [id |-> batch_id, starttime |-> t, statechains |-> state_chains,
     finalizeddata |-> <<>>, punishedstatechains |-> <<>>, finalized |-> FALSE]

\* transfer_batch_init: a batch over the given state chains, none complete
TransferBatchInit(batch_id, scs) ==
    /\ InsertAllowed(transferBatch, batch_id)
    /\ scs # {}
    /\ \A sc \in scs : HasRow(stateChain, sc)
    /\ transferBatch' = transferBatch \cup
          {CreateTransferBatchData(batch_id, [sc \in scs |-> FALSE], now)}
    /\ UNCHANGED <<userSession, ecdsa, stateChain, transfer, backupTxs,
                   root, rootSerial, now, nextUuid, req>>

\* (variant) the column is left as it was
UpdateLockedUntilKeep(row, time) == row

\* update_locked_until: UPDATE statechain SET lockeduntil
UpdateLockedUntil(row, time) == [row EXCEPT !.lockeduntil = time]

RECURSIVE SetToSeq(_)
SetToSeq(S) == IF S = {} THEN <<>>
               ELSE LET x == CHOOSE y \in S : \A z \in S : y <= z
                    IN <<x>> \o SetToSeq(S \ {x})

\* batch timeout: the state chains whose transfer is not complete are locked
\* for the punishment duration and recorded; the enrolled data is dropped
BatchTimeout(batch_id) ==
    /\ HasRow(transferBatch, batch_id)
    /\ LET b == Row(transferBatch, batch_id)
           punished == {sc \in DOMAIN b.statechains : ~b.statechains[sc]}
       IN  /\ ~b.finalized
           /\ b.punishedstatechains = <<>>
           /\ punished # {}
           /\ TransferBatchIsEnded(b.starttime, BatchLifetime, now)
           /\ stateChain' = {IF r.id \in punished
                             THEN UpdateLockedUntil(r, now + PunishmentDuration)
                             ELSE r : r \in stateChain}
           /\ transferBatch' = UpdateRow(transferBatch, batch_id,
                 [b EXCEPT !.punishedstatechains = SetToSeq(punished),
                           !.finalizeddata = <<>>])
    /\ UNCHANGED <<userSession, ecdsa, transfer, backupTxs,
                   root, rootSerial, now, nextUuid, req>>

\* the tree of the newest root of a root table
CurrentSmtOf(roots) ==
    IF roots = {} THEN EmptySmt
    ELSE (CHOOSE r \in roots : \A o \in roots : o.id <= r.id).value

\* the tables a transfer_finalize works on
FinalizeTables ==
    [stateChain |-> stateChain, userSession |-> userSession,
     backupTxs |-> backupTxs, root |-> root, rootSerial |-> rootSerial,
     transfer |-> transfer]

\* one transfer_finalize inside the store transaction of a batch: Some(the
\* tables after it), or None when one of its calls returns an error
BatchTransferFinalize(t, fd) ==
    LET id == fd.state_chain_id IN
    IF ~HasRow(t.stateChain, id) THEN None
    ELSE LET sc == Row(t.stateChain, id)
             added == StateChainAdd(sc.chain, fd.state_chain_sig)
         IN  IF \/ ~IsSome(added)
                \/ ~InsertAllowed(t.userSession, fd.new_shared_key_id)
                \/ ~HasRow(t.backupTxs, id)
                \/ ~HasRow(t.transfer, id)
             THEN None
             ELSE Some(
               [stateChain |-> UpdateRow(t.stateChain, id,
                    UpdateStatechainOwner(sc, Unwrap(added), fd.new_shared_key_id)),
                userSession |-> t.userSession \cup
                    {TransferInitUserSession(
                         NewUserSessionRow(fd.new_shared_key_id), id, fd)},
                backupTxs |-> UpdateRow(t.backupTxs, id,
                    [id |-> id, txbackup |-> Some(fd.new_tx_backup)]),
                root |-> t.root \cup
                    {[id |-> t.rootSerial + 1,
                      value |-> SmtUpdate(CurrentSmtOf(t.root), fd.new_tx_backup,
                                          Unwrap(added)),
                      commitmentinfo |-> None]},
                rootSerial |-> t.rootSerial + 1,
                transfer |-> RemoveRow(t.transfer, id)])

\* transfer_finalize for each entry of finalized_data in turn: Some(the tables
\* after the last), or None as soon as one fails
RECURSIVE BatchTransferFinalizeAll(_, _)
BatchTransferFinalizeAll(t, fds) ==
    IF fds = <<>> THEN Some(t)
    ELSE LET n == BatchTransferFinalize(t, Head(fds))
         IN IF IsSome(n) THEN BatchTransferFinalizeAll(Unwrap(n), Tail(fds))
            ELSE None

\* reveal and finalize: with every transfer of the batch complete and the
\* batch within its lifetime, all the enrolled transfers are finalized in one
\* store transaction and the batch is marked finalized; a failed finalize
\* aborts the whole batch
BatchFinalize(batch_id) ==
    /\ HasRow(transferBatch, batch_id)
    /\ LET b == Row(transferBatch, batch_id)
           done == BatchTransferFinalizeAll(FinalizeTables, b.finalizeddata)
       IN  /\ ~b.finalized
           /\ \A sc \in DOMAIN b.statechains : b.statechains[sc]
           /\ ~TransferBatchIsEnded(b.starttime, BatchLifetime, now)
           /\ IsSome(done)
           /\ stateChain' = Unwrap(done).stateChain
           /\ userSession' = Unwrap(done).userSession
           /\ backupTxs' = Unwrap(done).backupTxs
           /\ root' = Unwrap(done).root
           /\ rootSerial' = Unwrap(done).rootSerial
           /\ transfer' = Unwrap(done).transfer
           /\ transferBatch' = UpdateRow(transferBatch, batch_id,
                                         [b EXCEPT !.finalized = TRUE])
    /\ UNCHANGED <<ecdsa, now, nextUuid, req>>

-----------------------------------------------------------------------------
(* The steps of a request in progress on worker w *)

SenderStep(w) ==
    \/ SenderAuth(w)
    \/ SenderIsCompleted(w)
    \/ SenderGetOwner(w)
    \/ \E x1 \in {2, 3} : SenderCreateTransferInsert(w, x1)
    \/ \E sig \in StateChainSigs : SenderCreateTransferUpdate(w, sig)
    \/ SenderGetProofKey(w)

ReceiverStep(w) ==
    \/ ReceiverGetTransferData(w)
    \/ \E t2 \in Scalars, o2_pub \in O2Pubs : ReceiverGetEcdsaKeypair(w, t2, o2_pub)
    \/ \E tx \in Transactions, b \in {0} \cup BatchIds : ReceiverNewSharedKeyId(w, tx, b)
    \/ ReceiverGetFinalizeBatchData(w)
    \/ ReceiverUpdateFinalizeBatchData(w)

FinalizeStep(w) ==
    \/ FinalizeGetStatechain(w)
    \/ FinalizeUpdateStatechainOwner(w)
    \/ FinalizeInitUserSessionInsert(w)
    \/ FinalizeInitUserSessionUpdate(w)
    \/ FinalizeUpdateBackupTx(w)
    \/ FinalizeUpdateSmt(w)
    \/ FinalizeRootGetCurrentId(w)
    \/ FinalizeRootInsert(w)
    \/ FinalizeRemoveTransferData(w)

(* Requests served one at a time: every handler runs from its first store   *)
(* call to its last with no other request in between, and the deposits,     *)
(* key generations, batches and the clock move between the requests.  The   *)
(* state after each store call of a handler is a state of the               *)
(* specification.                                                           *)
Next ==
    \/ Quiet /\ Tick
    \/ Quiet /\ \E k \in {1}, s1 \in {2}, p2 \in {3} : Deposit(k, s1, p2)
    \/ Quiet /\ \E u \in Uuids, p2 \in {3} : Keygen(u, p2)
    \/ Quiet /\ \E b \in BatchIds, scs \in SUBSET ChainIds : TransferBatchInit(b, scs)
    \/ Quiet /\ \E b \in BatchIds : BatchFinalize(b)
    \/ Quiet /\ \E b \in BatchIds : BatchTimeout(b)
    \/ Quiet /\ \E u \in Uuids : StartSender(1, u)
    \/ Quiet /\ \E u \in Uuids, sc \in ChainIds, sig \in StateChainSigs :
                   StartReceiver(1, u, sc, sig)
    \/ SenderStep(1)
    \/ ReceiverStep(1)
    \/ FinalizeStep(1)

Spec == Init /\ [][Next]_vars

(* Two transfer_sender requests by the owner of a state chain, one on each  *)
(* worker thread, their store calls interleaved in any order.               *)
NextSenders ==
    \/ \E k \in {1}, s1 \in {2}, p2 \in {3} : Deposit(k, s1, p2)
    \/ \E w \in Workers, sc \in stateChain :
          req[w].pc = "idle" /\ StartSender(w, sc.ownerid)
    \/ \E w \in Workers : SenderStep(w)

SpecSenders == Init /\ [][NextSenders]_vars

(* A batch over two state chains.  The two deposits have been made (by the  *)
(* users Depositor(1) and Depositor(2), at time 0); the owners send, the    *)
(* receivers answer with the stored state_chain_sig and a consistent t2,    *)
(* with or without batch_data; the batch is finalized or times out.         *)
(* Requests are served one at a time.                                       *)
BatchChains == {1, 2}
Depositor(sc) == 10 + sc

InitBatch ==
    /\ userSession =
          {[NewUserSessionRow(Depositor(sc)) EXCEPT
                !.authentication = Some("auth"),
                !.proofkey = Some(1),
                !.statechainid = Some(sc),
                !.txbackup = Some([txid |-> sc, addr |-> 1])] : sc \in BatchChains}
    /\ ecdsa = {[id |-> Depositor(sc), party1private |-> Some(2),
                 party2public |-> Some(3)] : sc \in BatchChains}
    /\ stateChain = {CreateStatechainRow(sc, Depositor(sc), <<FirstEntry(1)>>, 1, 0) :
                        sc \in BatchChains}
    /\ transfer = {}
    /\ transferBatch = {}
    /\ backupTxs = {[id |-> sc, txbackup |-> Some([txid |-> sc, addr |-> 1])] :
                       sc \in BatchChains}
    /\ root = {[id |-> sc,
                value |-> [t \in Txids |-> IF t <= sc THEN 1 ELSE 0],
                commitmentinfo |-> None] : sc \in BatchChains}
    /\ rootSerial = 2
    /\ now = 0
    /\ nextUuid = 0
    /\ req = [w \in Workers |-> IdleReq]

\* the state_chain_sig of the owner of a chain, handing it to proof key `to`
OwnerSig(chain, to) ==
    [purpose |-> "TRANSFER", data |-> to,
     sig |-> [signer |-> chain[Len(chain)].data, purpose |-> "TRANSFER",
              data |-> to]]

NextBatch ==
    \/ Quiet /\ Tick
    \/ Quiet /\ \E scs \in SUBSET BatchChains : TransferBatchInit(1, scs)
    \/ Quiet /\ BatchFinalize(1)
    \/ Quiet /\ BatchTimeout(1)
    \/ Quiet /\ \E sc \in stateChain : StartSender(1, sc.ownerid)
    \/ SenderAuth(1)
    \/ SenderIsCompleted(1)
    \/ SenderGetOwner(1)
    \/ SenderCreateTransferInsert(1, 2)
    \/ \E sc \in stateChain :
          sc.id = req[1].state_chain_id
          /\ SenderCreateTransferUpdate(1, OwnerSig(sc.chain, 2))
    \/ SenderGetProofKey(1)
    \/ Quiet /\ \E t \in transfer, sc \in stateChain :
                   /\ sc.id = t.id /\ IsSome(t.statechainsig)
                   /\ StartReceiver(1, sc.ownerid, t.id, Unwrap(t.statechainsig))
    \/ ReceiverGetTransferData(1)
    \/ ReceiverGetEcdsaKeypair(1, 2, 3)
    \/ \E b \in {0, 1} :
          ReceiverNewSharedKeyId(1, [txid |-> req[1].state_chain_id, addr |-> 2], b)
    \/ ReceiverGetFinalizeBatchData(1)
    \/ ReceiverUpdateFinalizeBatchData(1)
    \/ FinalizeStep(1)

SpecBatch == InitBatch /\ [][NextBatch]_vars

(* The root table on its own: root_update calls, for new roots and for     *)
(* roots that carry an id, and get_confirmed_smt_root, one at a time.       *)
NextRoot ==
    \/ Quiet /\ Cardinality(root) < MaxRoots
             /\ \E rt \in RootArgs : StartRootUpdate(1, rt)
    \/ RootUpdateId(1)
    \/ RootUpdateInsert(1)
    \/ Quiet /\ GetConfirmedSmtRoot(1)

SpecRoot == Init /\ [][NextRoot]_vars

(* Two transfer_receiver requests without batch_data, one on each worker    *)
(* thread, their store calls interleaved in any order.  The deposits have   *)
(* been made; an owner sends, and each receiver answers with the stored     *)
(* state_chain_sig and a consistent t2.                                     *)
NextReceivers ==
    \/ Quiet /\ \E sc \in stateChain : StartSender(1, sc.ownerid)
    \/ SenderAuth(1)
    \/ SenderIsCompleted(1)
    \/ SenderGetOwner(1)
    \/ SenderCreateTransferInsert(1, 2)
    \/ \E sc \in stateChain :
          sc.id = req[1].state_chain_id
          /\ SenderCreateTransferUpdate(1, OwnerSig(sc.chain, 2))
    \/ SenderGetProofKey(1)
    \/ \E w \in Workers, t \in transfer, sc \in stateChain :
          /\ req[w].kind # "receiver"
          /\ sc.id = t.id /\ IsSome(t.statechainsig)
          /\ StartReceiver(w, sc.ownerid, t.id, Unwrap(t.statechainsig))
    \/ \E w \in Workers :
          \/ ReceiverGetTransferData(w)
          \/ ReceiverGetEcdsaKeypair(w, 2, 3)
          \/ ReceiverNewSharedKeyId(w, [txid |-> req[w].state_chain_id, addr |-> 2], 0)
          \/ FinalizeStep(w)

SpecReceivers == InitBatch /\ [][NextReceivers]_vars

(* Requests with any shared_key_id, served one at a time.  Two deposits     *)
(* have been made and further ones are begun; a transfer_sender names the   *)
(* id of a depositor, of a session of a begun deposit, of a new owner, or   *)
(* an id without a session; a transfer_receiver names the id of any session *)
(* that has key shares and answers with the stored state_chain_sig and a t2 *)
(* that is consistent with those key shares.                                *)
NextAnyId ==
    \/ Quiet /\ \E k \in Keys : DepositInit(k)
    \/ Quiet /\ \E u \in Uuids \cup {Depositor(sc) : sc \in BatchChains} :
                   StartSender(1, u)
    \/ SenderAuth(1)
    \/ SenderIsCompleted(1)
    \/ SenderGetOwner(1)
    \/ SenderCreateTransferInsert(1, 2)
    \/ \E sc \in stateChain :
          sc.id = req[1].state_chain_id
          /\ SenderCreateTransferUpdate(1, OwnerSig(sc.chain, 2))
    \/ SenderGetProofKey(1)
    \/ Quiet /\ \E t \in transfer, kp \in ecdsa :
                   /\ IsSome(t.statechainsig)
                   /\ StartReceiver(1, kp.id, t.id, Unwrap(t.statechainsig))
    \/ ReceiverGetTransferData(1)
    \/ ReceiverGetEcdsaKeypair(1, 2, 3)
    \/ ReceiverNewSharedKeyId(1, [txid |-> req[1].state_chain_id, addr |-> 2], 0)
    \/ FinalizeStep(1)

SpecAnyId == InitBatch /\ [][NextAnyId]_vars

(* Two transfer_receiver requests with batch_data, one on each worker       *)
(* thread, their store calls interleaved in any order.  The deposits have   *)
(* been made; a batch over both state chains is begun, the owners send, and *)
(* each receiver answers with the stored state_chain_sig, a consistent t2   *)
(* and the id of the batch.                                                 *)
NextEnroll ==
    \/ Quiet /\ TransferBatchInit(1, BatchChains)
    \/ Quiet /\ \E sc \in stateChain : StartSender(1, sc.ownerid)
    \/ SenderAuth(1)
    \/ SenderIsCompleted(1)
    \/ SenderGetOwner(1)
    \/ SenderCreateTransferInsert(1, 2)
    \/ \E sc \in stateChain :
          sc.id = req[1].state_chain_id
          /\ SenderCreateTransferUpdate(1, OwnerSig(sc.chain, 2))
    \/ SenderGetProofKey(1)
    \/ \E w \in Workers, t \in transfer, sc \in stateChain :
          /\ req[w].kind # "receiver"
          /\ sc.id = t.id /\ IsSome(t.statechainsig)
          /\ StartReceiver(w, sc.ownerid, t.id, Unwrap(t.statechainsig))
    \/ \E w \in Workers :
          \/ ReceiverGetTransferData(w)
          \/ ReceiverGetEcdsaKeypair(w, 2, 3)
          \/ ReceiverNewSharedKeyId(w, [txid |-> req[w].state_chain_id, addr |-> 2], 1)
          \/ ReceiverGetFinalizeBatchData(w)
          \/ ReceiverUpdateFinalizeBatchData(w)

SpecEnroll == InitBatch /\ [][NextEnroll]_vars

(* root_update calls for new roots, one on each worker thread, their store  *)
(* calls interleaved in any order.                                          *)
NextRootWorkers ==
    \/ \E w \in Workers, rt \in RootArgs :
          /\ rt.id = None
          /\ Cardinality(root) + Cardinality({v \in Workers : ~Free(v)}) < MaxRoots
          /\ StartRootUpdate(w, rt)
    \/ \E w \in Workers : RootUpdateId(w)
    \/ \E w \in Workers : RootUpdateInsert(w)

SpecRootWorkers == Init /\ [][NextRootWorkers]_vars

(* Transfers in a row, served one at a time: the new owner's proof key is   *)
(* the data of the state_chain_sig the sender passed, a public key or not.  *)
NextProofKey ==
    \/ Quiet /\ Tick
    \/ Quiet /\ \E sc \in stateChain : StartSender(1, sc.ownerid)
    \/ SenderAuth(1) \/ SenderIsCompleted(1) \/ SenderGetOwner(1)
    \/ SenderCreateTransferInsert(1, 2)
    \/ \E sc \in stateChain, k \in {2, BadKey} :
          /\ sc.id = req[1].state_chain_id
          /\ SenderCreateTransferUpdate(1, OwnerSig(sc.chain, k))
    \/ SenderGetProofKey(1)
    \/ Quiet /\ \E t \in transfer, sc \in stateChain :
          /\ sc.id = t.id /\ IsSome(t.statechainsig)
          /\ StartReceiver(1, sc.ownerid, t.id, Unwrap(t.statechainsig))
    \/ ReceiverGetTransferData(1)
    \/ ReceiverGetEcdsaKeypair(1, 2, 3)
    \/ ReceiverNewSharedKeyId(1, [txid |-> req[1].state_chain_id, addr |-> 2], 0)
    \/ FinalizeStep(1)

SpecProofKey == InitBatch /\ [][NextProofKey]_vars

(* The transfers of state chain 1, served one at a time: the senders on     *)
(* worker 1 and the receivers on worker 2, so that the record of the last   *)
(* transfer_sender stays while a receiver runs.  The callers of             *)
(* transfer_sender are the users bound to the state chain, its former       *)
(* owners included, and they call while no transfer of it is pending (a     *)
(* call made while one is pending is refused at transfer_is_completed); the *)
(* receivers answer with the stored state_chain_sig, with or without        *)
(* batch_data.                                                              *)
NextOrder ==
    \/ Quiet /\ Tick
    \/ Quiet /\ TransferBatchInit(1, {1})
    \/ Quiet /\ BatchFinalize(1)
    \/ Quiet /\ \E u \in Uuids : Keygen(u, 3)
    \/ Quiet /\ \E u \in userSession :
          /\ u.statechainid = Some(1) /\ ~HasRow(transfer, 1)
          /\ StartSender(1, u.id)
    \/ SenderAuth(1) \/ SenderIsCompleted(1) \/ SenderGetOwner(1)
    \/ SenderCreateTransferInsert(1, 2)
    \/ \E sc \in stateChain, k \in {2, BadKey} :
          /\ sc.id = req[1].state_chain_id
          /\ SenderCreateTransferUpdate(1, OwnerSig(sc.chain, k))
    \/ SenderGetProofKey(1)
    \/ Quiet /\ \E t \in transfer, sc \in stateChain :
          /\ sc.id = t.id /\ IsSome(t.statechainsig)
          /\ StartReceiver(2, sc.ownerid, t.id, Unwrap(t.statechainsig))
    \/ ReceiverGetTransferData(2)
    \/ ReceiverGetEcdsaKeypair(2, 2, 3)
    \/ \E b \in {0, 1} :
          ReceiverNewSharedKeyId(2, [txid |-> req[2].state_chain_id, addr |-> 2], b)
    \/ ReceiverGetFinalizeBatchData(2)
    \/ ReceiverUpdateFinalizeBatchData(2)
    \/ FinalizeStep(2)

SpecOrder == InitBatch /\ [][NextOrder]_vars

(* The store's methods called on their own, for ids with and without a row: *)
(* get_transfer_data (get), update_locked_until (update) and                *)
(* remove_transfer_data (remove).  The record of a call is its kind, the id *)
(* and Ok or the error.                                                     *)
StoreIds == {1, 2, 3}

StoreResult(kind, id, err) ==
    [IdleReq EXCEPT !.kind = kind, !.state_chain_id = id, !.err = err,
                    !.pc = IF err = "" THEN "ok" ELSE "err"]

StoreGet(w, id) ==
    /\ Free(w)
    /\ req' = [req EXCEPT ![w] = StoreResult("get", id, Get(transfer, id).err)]
    /\ UNCHANGED <<store, now, nextUuid>>

StoreUpdate(w, id, time) ==
    LET res == Update(stateChain, id, "lockeduntil", time) IN
    /\ Free(w)
    /\ stateChain' = res.table
    /\ req' = [req EXCEPT ![w] = StoreResult("update", id, res.err)]
    /\ UNCHANGED <<userSession, ecdsa, transfer, transferBatch, backupTxs,
                   root, rootSerial, now, nextUuid>>

StoreRemove(w, id) ==
    LET res == Remove(transfer, id) IN
    /\ Free(w)
    /\ transfer' = res.table
    /\ req' = [req EXCEPT ![w] = StoreResult("remove", id, res.err)]
    /\ UNCHANGED <<userSession, ecdsa, stateChain, transferBatch, backupTxs,
                   root, rootSerial, now, nextUuid>>

NextStore ==
    \/ Quiet /\ \E sc \in stateChain : StartSender(1, sc.ownerid)
    \/ SenderAuth(1) \/ SenderIsCompleted(1) \/ SenderGetOwner(1)
    \/ SenderCreateTransferInsert(1, 2)
    \/ \E sc \in stateChain :
          /\ sc.id = req[1].state_chain_id
          /\ SenderCreateTransferUpdate(1, OwnerSig(sc.chain, 2))
    \/ SenderGetProofKey(1)
    \/ \E id \in StoreIds : StoreGet(1, id)
    \/ \E id \in StoreIds, time \in 0..1 : StoreUpdate(1, id, time)
    \/ \E id \in StoreIds : StoreRemove(1, id)

SpecStore == InitBatch /\ [][NextStore]_vars

-----------------------------------------------------------------------------
(* Config::load: the defaults, overridden by the file Settings, overridden   *)
(* by the environment (MERC_...), then the type check of fee_address and    *)
(* the conversion into a Config.  A setting is a string as written in the    *)
(* file or the environment.                                                 *)

\* Config::default()
DefaultFeeAddress == "bcrt1q-default"
DefaultFeeDeposit == "300"

\* the strings bitcoin::Address::from_str accepts, among those of the model
ValidAddresses == {"bcrt1q-default", "bcrt1q-other"}
AddressStrings == ValidAddresses \cup {"", "not-an-address"}
AddressFromStrOk(str) == str \in ValidAddresses

\* a setting read as u64: Some(n), or None when the string is no number
U64Strings == {"300", "1000", "abc"}
ParseU64(str) == IF str = "300" THEN Some(300)
                 ELSE IF str = "1000" THEN Some(1000)
                 ELSE None

\* the file Settings: absent, unreadable, or a set of settings; and the
\* environment
NoSettings(state) == [state |-> state, fee_address |-> None, fee_deposit |-> None]
FileSettings ==
    {NoSettings("absent"), NoSettings("malformed")} \cup
    [state : {"present"},
     fee_address : {None} \cup {Some(a) : a \in AddressStrings},
     fee_deposit : {None} \cup {Some(d) : d \in U64Strings}]
EnvSettings ==
    [state : {"present"},
     fee_address : {None} \cup {Some(a) : a \in AddressStrings},
     fee_deposit : {None, Some("abc")}]

\* ConfigRs::merge: a later source overrides an earlier one
Merged(default, file, env) ==
    IF IsSome(env) THEN Unwrap(env)
    ELSE IF IsSome(file) THEN Unwrap(file)
    ELSE default

\* (variant) no type check of fee_address
ConfigLoadUnchecked(file, env) ==
    IF file.state = "malformed" THEN [result |-> "err", config |-> None]
    ELSE LET fee_address == Merged(DefaultFeeAddress, file.fee_address,
                                   env.fee_address)
             fee_deposit == Merged(DefaultFeeDeposit, file.fee_deposit,
                                   env.fee_deposit)
         IN  IF ~IsSome(ParseU64(fee_deposit))
             THEN [result |-> "err", config |-> None]
             ELSE [result |-> "ok",
                   config |-> Some([fee_address |-> fee_address,
                                    fee_deposit |-> Unwrap(ParseU64(fee_deposit))])]

\* Config::load: Ok(config), Err(..), or a panic
ConfigLoad(file, env) ==
    IF file.state = "malformed" THEN [result |-> "err", config |-> None]
    ELSE LET fee_address == Merged(DefaultFeeAddress, file.fee_address,
                                   env.fee_address)
             fee_deposit == Merged(DefaultFeeDeposit, file.fee_deposit,
                                   env.fee_deposit)
         IN  IF ~AddressFromStrOk(fee_address)
             THEN [result |-> "panic", config |-> None]
             ELSE IF ~IsSome(ParseU64(fee_deposit))
             THEN [result |-> "err", config |-> None]
             ELSE [result |-> "ok",
                   config |-> Some([fee_address |-> fee_address,
                                    fee_deposit |-> Unwrap(ParseU64(fee_deposit))])]

\* the main thread (worker 1) is about to call Config::load, with some file
\* Settings and some environment; the tables are empty
InitConfig ==
    /\ userSession = {} /\ ecdsa = {} /\ stateChain = {} /\ transfer = {}
    /\ transferBatch = {} /\ backupTxs = {} /\ root = {} /\ rootSerial = 0
    /\ now = 0 /\ nextUuid = 0
    /\ \E file \in FileSettings, env \in EnvSettings :
          req = [w \in Workers |->
                   IF w = 1
                   THEN [IdleReq EXCEPT !.kind = "config_load", !.pc = "load",
                                        !.rt = Some([file |-> file, env |-> env,
                                                     config |-> None])]
                   ELSE IdleReq]

\* the call: its outcome is the position (ok, err, panic), its Config is kept
\* next to the settings it was loaded from
LoadConfig(w) ==
    LET r == req[w]
        in == Unwrap(r.rt)
        out == ConfigLoad(in.file, in.env)
    IN
    /\ r.kind = "config_load" /\ r.pc = "load"
    /\ req' = [req EXCEPT ![w] =
                 [r EXCEPT !.pc = out.result,
                           !.rt = Some([in EXCEPT !.config = out.config])]]
    /\ UNCHANGED <<store, now, nextUuid>>

NextConfig == LoadConfig(1)

SpecConfig == InitConfig /\ [][NextConfig]_vars

-----------------------------------------------------------------------------
(* Properties.  In Spec the requests are served one at a time by worker 1;  *)
(* in SpecSenders two transfer_sender requests run on workers 1 and 2.      *)

(* C1: of two transfer_sender requests by the owner of a state chain whose  *)
(* store calls interleave, exactly one returns success, the other fails     *)
(* with the "Transfer already completed" error, and exactly one Transfer    *)
(* row exists afterwards.                                                   *)
C1_ConcurrentSendersOneSucceeds ==
    (\A w \in Workers : req[w].kind = "sender" /\ req[w].pc \in {"ok", "err"})
    => /\ \E w \in Workers :
             /\ req[w].pc = "ok"
             /\ \A v \in Workers \ {w} :
                   req[v].pc = "err" /\ req[v].err = "TransferAlreadyCompleted"
       /\ Cardinality(transfer) = 1

\* C2, in every state: one row per id, and a sender that is past the check for
\* a pending transfer found none
C2_Inv ==
    LET r == req[1] IN
    /\ \A a, b \in transfer : a.id = b.id => a = b
    /\ (r.kind = "sender"
        /\ r.pc \in {"get_statechain_owner", "create_transfer_insert"})
       => ~HasRow(transfer, r.state_chain_id)

\* C2, in every step: a sender at the check fails when a row exists, and a
\* complete row stays as it is unless transfer_finalize removes it
C2_Act ==
    LET r == req[1] IN
    /\ (r.kind = "sender" /\ r.pc = "transfer_is_completed"
        /\ HasRow(transfer, r.state_chain_id))
       => (req'[1].pc = "err" /\ transfer' = transfer)
    /\ \A t \in transfer :
          IsSome(t.statechainsig) =>
             \/ t \in transfer'
             \/ /\ r.kind = "receiver" /\ r.pc = "remove_transfer_data"
                /\ r.state_chain_id = t.id
                /\ ~HasRow(transfer', t.id)
             \/ /\ \E b \in transferBatch, c \in transferBatch' :
                      b.id = c.id /\ ~b.finalized /\ c.finalized
                /\ ~HasRow(transfer', t.id)

(* C2: there is at most one TransferData per state chain id; while one      *)
(* exists every transfer_sender for that state chain fails, and its         *)
(* state_chain_sig and x1 stay unchanged until transfer_finalize (of the    *)
(* receiver, or of the batch) removes it.                                   *)
C2_TransferDataExclusive == []C2_Inv /\ [][C2_Act]_vars

\* a sender was turned away because a TransferData exists for its state chain
C2_Witness ==
    /\ req[1].kind = "sender" /\ req[1].pc = "err"
    /\ req[1].err = "TransferAlreadyCompleted"
    /\ \E t \in transfer :
          t.id = req[1].state_chain_id /\ IsSome(t.statechainsig) /\ IsSome(t.x1)

\* C3, the step that reads the StateChainOwner for a request by the owner
C3_Act ==
    LET r == req[1] IN
    (/\ r.kind = "sender" /\ r.pc = "get_statechain_owner"
     /\ HasRow(stateChain, r.state_chain_id)
     /\ Row(stateChain, r.state_chain_id).ownerid = r.user_id)
    => LET sc == Row(stateChain, r.state_chain_id) IN
       /\ (req'[1].pc = "err" /\ req'[1].err = "StateChainLocked")
             <=> (sc.lockeduntil > now)
       /\ (sc.lockeduntil <= now) => (req'[1].pc = "create_transfer_insert")
       /\ transfer' = transfer
       /\ (req'[1].pc = "err") => ~HasRow(transfer', r.state_chain_id)

C4_PreviousOwnerCannotSend ==
    LET r == req[1] IN
    /\ \A sc \in stateChain, u \in userSession :
          (/\ Len(sc.chain) > 1
           /\ u.statechainid = Some(sc.id)
           /\ u.id # sc.ownerid)
          => ~(/\ r.kind = "sender" /\ r.user_id = u.id
               /\ r.pc \in {"create_transfer_insert", "create_transfer_update",
                            "get_proof_key"})
    /\ (r.kind = "sender" /\ r.pc = "err" /\ r.err = "NotOwner")
       => ~HasRow(transfer, r.state_chain_id)

\* the previous owner asked after the transfer and was told it is not the owner
C4_Witness ==
    /\ req[1].kind = "sender" /\ req[1].pc = "err" /\ req[1].err = "NotOwner"
    /\ \E sc \in stateChain, u \in userSession :
          /\ sc.id = req[1].state_chain_id /\ Len(sc.chain) = 2
          /\ u.id = req[1].user_id /\ u.statechainid = Some(sc.id)
          /\ sc.ownerid # u.id
    /\ transfer = {}

(* C5: after every store write, for every state chain exactly one           *)
(* UserSession has the id state_chain.owner_id.                             *)
C5_OwnerSessionAtEveryCommit ==
    \A sc \in stateChain :
       Cardinality({u \in userSession : u.id = sc.ownerid}) = 1

\* C6, in every state: each entry of a stored chain is signed for by the
\* entry before it
C6_Inv ==
    \A sc \in stateChain :
       \A i \in 1..(Len(sc.chain) - 1) : Verify(sc.chain[i].data, sc.chain[i + 1])

\* C6, in every step: a chain is written only as the stored chain plus one
\* entry that verifies under the last one, and a finalize whose entry does
\* not verify returns an error without a store write
C6_Act ==
    LET r == req[1] IN
    /\ \A sc \in stateChain, sd \in stateChain' :
          (sd.id = sc.id /\ sd.chain # sc.chain)
          => /\ Len(sd.chain) = Len(sc.chain) + 1
             /\ SubSeq(sd.chain, 1, Len(sc.chain)) = sc.chain
             /\ Verify(sc.chain[Len(sc.chain)].data, sd.chain[Len(sd.chain)])
    /\ (/\ r.kind = "receiver" /\ r.pc = "get_statechain"
        /\ HasRow(stateChain, r.state_chain_id)
        /\ LET c == Row(stateChain, r.state_chain_id).chain
           IN ~Verify(c[Len(c)].data, Unwrap(r.sig)))
       => (req'[1].pc = "err" /\ UNCHANGED store)

(* C6: every stored chain has integrity (each entry's signature verifies    *)
(* under the previous entry's data); transfer_finalize writes the chain     *)
(* only with an entry the append validated, and does no store write when    *)
(* the append is rejected.                                                  *)
C6_ChainIntegrity == []C6_Inv /\ [][C6_Act]_vars

\* a chain of two entries, the second signed for by the first
C6_Witness ==
    \E sc \in stateChain :
       /\ Len(sc.chain) = 2
       /\ Verify(sc.chain[1].data, sc.chain[2])

\* C7, in every step
C7_Act ==
    LET r == req[1] IN
    /\ \A sc \in stateChain :
          \E sd \in stateChain' :
             /\ sd.id = sc.id
             /\ \/ sd.chain = sc.chain
                \/ /\ r.kind = "receiver" /\ r.pc = "update_statechain_owner"
                   /\ r.state_chain_id = sc.id
                   /\ sd.chain = Append(sc.chain, Unwrap(r.sig))
                \/ \E b \in transferBatch, c \in transferBatch' :
                      /\ b.id = c.id /\ ~b.finalized /\ c.finalized
                      /\ \E i \in 1..Len(b.finalizeddata) :
                            /\ b.finalizeddata[i].state_chain_id = sc.id
                            /\ sd.chain = Append(sc.chain,
                                     b.finalizeddata[i].state_chain_sig)
    /\ (/\ r.kind = "receiver" /\ r.pc = "update_statechain_owner"
        /\ req'[1].pc # "err")
       => /\ HasRow(stateChain, r.state_chain_id)
          /\ Row(stateChain', r.state_chain_id).chain =
                Append(Row(stateChain, r.state_chain_id).chain, Unwrap(r.sig))

(* C7: the chain is append-only: the chain write of a transfer_finalize (of *)
(* the receiver, or of the batch) extends the stored chain by exactly the   *)
(* one new entry and keeps the earlier entries, and no other step (of       *)
(* transfer_sender, of a batch-mode transfer_receiver, or of anything else) *)
(* changes a chain.                                                         *)
C7_ChainAppendOnly == [][C7_Act]_vars

\* a transfer was finalized: the first entry is still the depositor's, the
\* second is new
C7_Witness ==
    /\ req[1].kind = "receiver" /\ req[1].pc = "ok"
    /\ \E sc \in stateChain :
          /\ sc.id = req[1].state_chain_id
          /\ Len(sc.chain) = 2
          /\ sc.chain[1] = FirstEntry(sc.chain[1].data)
          /\ sc.ownerid = req[1].new_id

\* C8, the last step of a transfer_finalize that succeeds
C8_Act ==
    LET r == req[1] IN
    (r.kind = "receiver" /\ r.pc = "remove_transfer_data" /\ req'[1].pc = "ok")
    => LET id == r.state_chain_id
           sig == Unwrap(r.sig)
           tx == Unwrap(r.tx_backup)
       IN  /\ HasRow(stateChain', id)
           /\ LET sc == Row(stateChain', id) IN
                 /\ Len(sc.chain) >= 2
                 /\ sc.chain[Len(sc.chain)] = sig
                 /\ sc.ownerid = r.new_id
           /\ \E u \in userSession' :
                 /\ u.id = r.new_id
                 /\ u.statechainid = Some(id)
                 /\ u.proofkey = Some(sig.data)
                 /\ u.s2 = Some(r.s2)
                 /\ u.txbackup = Some(tx)
           /\ \E b \in backupTxs' : b.id = id /\ b.txbackup = Some(tx)
           /\ \E ro \in root' :
                 /\ ro.id = rootSerial' /\ ro.id = r.root_id
                 /\ \A other \in root' : other.id <= ro.id
                 /\ ro.value[tx.txid] = sig.data
           /\ ~HasRow(transfer', id)

C9_Case(t2, o2_pub) ==
    LET r == req[1] IN
    /\ r.kind = "receiver" /\ r.pc = "get_ecdsa_keypair"
    /\ HasRow(ecdsa, r.user_id)
    /\ IsSome(Row(ecdsa, r.user_id).party1private)
    /\ IsSome(Row(ecdsa, r.user_id).party2public)
    /\ LET s1 == Unwrap(Row(ecdsa, r.user_id).party1private)
           p2 == Unwrap(Row(ecdsa, r.user_id).party2public)
       IN (o2_pub * ComputeS2(t2, r.x1, s1)) % Q # (p2 * s1) % Q
    /\ ReceiverGetEcdsaKeypair(1, t2, o2_pub)

\* the s2 the server computes in that step
C9_S2(t2) ==
    ComputeS2(t2, req[1].x1, Unwrap(Row(ecdsa, req[1].user_id).party1private))

(* C9 as stated: a transfer_receiver whose t2 is inconsistent fails with    *)
(* the "P1 != P2" error and leaves the store (TransferData, state chain,    *)
(* owner, batch, sessions) unchanged.                                       *)
C9_InconsistentT2FailsP1P2 ==
    [][req[1].pc = "get_ecdsa_keypair" =>
         \A t2 \in Scalars, o2_pub \in O2Pubs :
            C9_Case(t2, o2_pub)
            => /\ req'[1].pc = "err" /\ req'[1].err = "P1NotEqualP2"
               /\ UNCHANGED <<store, nextUuid>>]_vars

(* C9 amended: a transfer_receiver whose t2 is inconsistent fails, with the *)
(* "Invalid o2" error when the computed s2 is at least q/3 and with the     *)
(* "P1 != P2" error otherwise, and leaves the store unchanged.              *)
C9_InconsistentT2Fails ==
    [][req[1].pc = "get_ecdsa_keypair" =>
         \A t2 \in Scalars, o2_pub \in O2Pubs :
            C9_Case(t2, o2_pub)
            => /\ req'[1].pc = "err"
               /\ req'[1].err = IF C9_S2(t2) >= Q \div 3 THEN "InvalidO2"
                                ELSE "P1NotEqualP2"
               /\ UNCHANGED <<store, nextUuid>>]_vars

\* a receiver failed with "P1 != P2"; the TransferData and the owner are as
\* the sender left them
C9_Witness ==
    /\ req[1].kind = "receiver" /\ req[1].pc = "err"
    /\ req[1].err = "P1NotEqualP2"
    /\ \E t \in transfer : t.id = req[1].state_chain_id /\ IsSome(t.x1)
    /\ \E sc \in stateChain :
          sc.id = req[1].state_chain_id /\ sc.ownerid = req[1].user_id

\* C10, in every state: a receiver past the comparison holds the stored
\* state_chain_sig
C10_Inv ==
    LET r == req[1] IN
    (r.kind = "receiver" /\ r.pc \notin {"get_transfer_data", "ok", "err"})
    => /\ HasRow(transfer, r.state_chain_id)
       /\ Row(transfer, r.state_chain_id).statechainsig = r.sig

\* C10, in every step: without a TransferData, or with another
\* state_chain_sig in it, the receiver fails and writes nothing
C10_Act ==
    LET r == req[1] IN
    (/\ r.kind = "receiver" /\ r.pc = "get_transfer_data"
     /\ \/ ~HasRow(transfer, r.state_chain_id)
        \/ Row(transfer, r.state_chain_id).statechainsig # r.sig)
    => (req'[1].pc = "err" /\ UNCHANGED <<store, nextUuid>>)

(* C10: transfer_receiver goes on (and so can succeed) only with the        *)
(* state_chain_sig that is stored in the TransferData of the state chain;   *)
(* on a mismatch, or without a TransferData, it returns an error and        *)
(* changes nothing in the store.                                            *)
C10_SigMustMatch == []C10_Inv /\ [][C10_Act]_vars

\* a receiver was turned away for its state_chain_sig; the TransferData stays
C10_Witness ==
    /\ req[1].kind = "receiver" /\ req[1].pc = "err"
    /\ req[1].err = "StateChainSigMismatch"
    /\ \E t \in transfer :
          t.id = req[1].state_chain_id /\ IsSome(t.statechainsig)

\* C11, in every state: a receiver about to enroll has found its batch within
\* the lifetime
C11_Inv ==
    LET r == req[1] IN
    (r.kind = "receiver" /\ r.pc = "update_finalize_batch_data")
    => /\ r.batch_id # 0
       /\ HasRow(transferBatch, r.batch_id)
       /\ now <= Row(transferBatch, r.batch_id).starttime + BatchLifetime

\* C11, in every step of a receiver
C11_Act ==
    LET r == req[1] IN
    \* the branch on batch_data
    /\ (r.kind = "receiver" /\ r.pc = "new_shared_key_id")
       => req'[1].pc = IF req'[1].batch_id = 0 THEN "get_statechain"
                       ELSE "get_finalize_batch_data"
    \* success comes from the enrollment with batch_data, from the last call
    \* of transfer_finalize without
    /\ (r.kind = "receiver" /\ r.pc # "ok" /\ req'[1].pc = "ok")
       => r.pc = IF r.batch_id = 0 THEN "remove_transfer_data"
                 ELSE "update_finalize_batch_data"
    \* with batch_data nothing but the batch is written
    /\ (r.kind = "receiver" /\ r.pc \notin {"ok", "err"} /\ r.batch_id # 0)
       => UNCHANGED <<stateChain, userSession, ecdsa, backupTxs, root,
                      rootSerial, transfer>>
    \* the enrollment: the flag of the state chain, one more entry
    /\ (r.kind = "receiver" /\ r.pc = "update_finalize_batch_data"
        /\ req'[1].pc = "ok")
       => LET b == Row(transferBatch, r.batch_id)
              c == Row(transferBatch', r.batch_id)
          IN  /\ DOMAIN c.statechains = DOMAIN b.statechains \cup {r.state_chain_id}
              /\ c.statechains[r.state_chain_id] = TRUE
              /\ \A sc \in DOMAIN b.statechains \ {r.state_chain_id} :
                    c.statechains[sc] = b.statechains[sc]
              /\ Len(c.finalizeddata) = Len(b.finalizeddata) + 1
              /\ SubSeq(c.finalizeddata, 1, Len(b.finalizeddata)) = b.finalizeddata
              /\ LET fd == c.finalizeddata[Len(c.finalizeddata)] IN
                    /\ fd.state_chain_id = r.state_chain_id
                    /\ fd.new_shared_key_id = r.new_id
                    /\ Some(fd.state_chain_sig) =
                          Row(transfer, r.state_chain_id).statechainsig
              /\ c.starttime = b.starttime /\ c.finalized = b.finalized
              /\ c.punishedstatechains = b.punishedstatechains

(* C11: a successful transfer_receiver with batch_data for a batch that has *)
(* not ended does not finalize: it sets the flag of its state chain to true *)
(* and appends exactly one TransferFinalizeData to the batch, and leaves    *)
(* the chain, the owner, the user sessions, BackupTx, the roots and the     *)
(* TransferData as they are; without batch_data a successful                *)
(* transfer_receiver has run transfer_finalize.                             *)
C11_BatchReceiverEnrollsOnly == []C11_Inv /\ [][C11_Act]_vars

\* a receiver has enrolled: flag set, one entry, the transfer still pending
\* and the chain as deposited
C11_Witness ==
    /\ req[1].kind = "receiver" /\ req[1].pc = "ok"
    /\ \E b \in transferBatch :
          /\ req[1].state_chain_id \in DOMAIN b.statechains
          /\ b.statechains[req[1].state_chain_id]
          /\ Len(b.finalizeddata) = 1
          /\ b.finalizeddata[1].new_shared_key_id = req[1].new_id
          /\ ~b.finalized
    /\ HasRow(transfer, req[1].state_chain_id)
    /\ \E sc \in stateChain :
          sc.id = req[1].state_chain_id /\ Len(sc.chain) = 1
    /\ Cardinality(root) = 1

\* C12, the step that reads the batch of a receiver
C12_Act ==
    LET r == req[1] IN
    /\ (/\ r.kind = "receiver" /\ r.pc = "get_finalize_batch_data"
        /\ HasRow(transferBatch, r.batch_id)
        /\ now > Row(transferBatch, r.batch_id).starttime + BatchLifetime)
       => /\ req'[1].pc = "err" /\ req'[1].err = "TransferBatchEnded"
          /\ UNCHANGED store
    \* and it has written nothing on its way there
    /\ (r.kind = "receiver"
        /\ r.pc \in {"get_transfer_data", "get_ecdsa_keypair", "new_shared_key_id"})
       => UNCHANGED store

(* C12: a transfer_receiver with batch_data for a batch whose lifetime has  *)
(* elapsed (now later than start_time + batch_lifetime) fails with the      *)
(* "Transfer batch ended" error, and neither enrolls the state chain nor    *)
(* finalizes the transfer.                                                  *)
C12_EndedBatchRejects == [][C12_Act]_vars

\* a receiver came too late: the batch is as it was created, the transfer is
\* still pending
C12_Witness ==
    /\ req[1].kind = "receiver" /\ req[1].pc = "err"
    /\ req[1].err = "TransferBatchEnded"
    /\ \E b \in transferBatch :
          /\ now > b.starttime + BatchLifetime
          /\ b.finalizeddata = <<>>
          /\ \A sc \in DOMAIN b.statechains : ~b.statechains[sc]
    /\ HasRow(transfer, req[1].state_chain_id)
    /\ \E sc \in stateChain :
          sc.id = req[1].state_chain_id /\ Len(sc.chain) = 1

\* C13, in every state: the state chains of a finalized batch have been
\* extended
C13_Inv ==
    \A b \in transferBatch :
       b.finalized
       => \A id \in DOMAIN b.statechains :
             \E sc \in stateChain : sc.id = id /\ Len(sc.chain) > 1

\* C13, in every step: while a batch stands unfinalized past its lifetime, no
\* state chain of it gets a longer chain or another owner
C13_Act ==
    \A b \in transferBatch :
       (~b.finalized /\ now > b.starttime + BatchLifetime)
       => \A sc \in stateChain :
             sc.id \in DOMAIN b.statechains
             => \E sd \in stateChain' :
                   sd.id = sc.id /\ sd.chain = sc.chain /\ sd.ownerid = sc.ownerid

(* C13: no partial batch: when a TransferBatch has finalized = true, every  *)
(* state chain of it has had its chain extended and its owner changed by    *)
(* transfer_finalize; when a batch is not finalized after its lifetime has  *)
(* elapsed, none of its state chains has been extended.                     *)
C13_NoPartialBatch == []C13_Inv /\ [][C13_Act]_vars

(* C14: in every state a batch has finalized = true if and only if every    *)
(* flag in state_chains is true and finalized_data has as many entries as   *)
(* the batch has state chains.                                              *)
C14_FinalizedIffComplete ==
    \A b \in transferBatch :
       b.finalized
       <=> /\ \A id \in DOMAIN b.statechains : b.statechains[id]
           /\ Len(b.finalizeddata) = Cardinality(DOMAIN b.statechains)

\* the state chains a batch row names as punished
C15_Punished(b) == {b.punishedstatechains[i] : i \in 1..Len(b.punishedstatechains)}

\* C15, in every state: a batch with punished state chains is not finalized
C15_Inv ==
    \A b \in transferBatch : b.punishedstatechains # <<>> => ~b.finalized

\* C15, in every step: the step that records the punished state chains of a
\* batch, and no other, moves locked_until
C15_Act ==
    /\ \A b \in transferBatch, c \in transferBatch' :
          (b.id = c.id /\ c.punishedstatechains # b.punishedstatechains)
          => LET punished == {id \in DOMAIN b.statechains : ~b.statechains[id]}
             IN  /\ ~b.finalized /\ ~c.finalized
                 /\ now > b.starttime + BatchLifetime
                 /\ C15_Punished(c) = punished
                 /\ Len(c.punishedstatechains) = Cardinality(punished)
                 /\ c.statechains = b.statechains
                 /\ \A sc \in stateChain :
                       \E sd \in stateChain' :
                          /\ sd.id = sc.id
                          /\ sd.chain = sc.chain /\ sd.ownerid = sc.ownerid
                          /\ sd.amount = sc.amount
                          /\ sd.lockeduntil =
                                IF sc.id \in punished
                                THEN now + PunishmentDuration
                                ELSE sc.lockeduntil
                 /\ UNCHANGED <<userSession, ecdsa, transfer, backupTxs, root,
                                rootSerial>>
    /\ \A sc \in stateChain, sd \in stateChain' :
          (sd.id = sc.id /\ sd.lockeduntil # sc.lockeduntil)
          => \E b \in transferBatch, c \in transferBatch' :
                /\ b.id = c.id /\ c.punishedstatechains # b.punishedstatechains
                /\ sc.id \in C15_Punished(c)

(* C15: on batch timeout (now later than start_time + batch_lifetime with   *)
(* finalized = false) the punished set is exactly the state chains whose    *)
(* flag is false, each of them gets locked_until = now +                    *)
(* punishment_duration and is recorded in punished_state_chains, and none   *)
(* of the enrolled TransferFinalizeData is applied: no chain, owner,        *)
(* session, backup transaction or root changes, and the batch is never      *)
(* finalized.                                                               *)
C15_TimeoutPunishesIncomplete == []C15_Inv /\ [][C15_Act]_vars

\* a batch over both state chains has timed out with one of them enrolled:
\* the other one is punished and locked, the enrolled one is neither, and
\* its transfer has not been applied
C15_Witness ==
    \E b \in transferBatch :
       /\ DOMAIN b.statechains = BatchChains
       /\ b.statechains[1] /\ ~b.statechains[2]
       /\ b.punishedstatechains = <<2>>
       /\ now > b.starttime + BatchLifetime
       /\ \E sc \in stateChain :
             sc.id = 2 /\ sc.lockeduntil = now + PunishmentDuration
       /\ \E sc \in stateChain :
             sc.id = 1 /\ sc.lockeduntil <= now /\ Len(sc.chain) = 1
             /\ sc.ownerid = Depositor(1)

\* C16, in every state: the ids of the stored roots are 1..n, one row each
C16_Inv ==
    /\ {r.id : r \in root} = 1..Cardinality(root)
    /\ \A a, b \in root : a.id = b.id => a = b

\* C16, in every step: a row that is added has an id above every stored id,
\* and a root_update of a new root returns the id of the row it has added
C16_Act ==
    LET r == req[1] IN
    /\ \A new \in root' \ root : \A old \in root : old.id < new.id
    /\ root \subseteq root'
    /\ (/\ r.kind = "root_update" /\ r.pc = "root_update_insert"
        /\ Unwrap(r.rt).id = <<>>)
       => /\ req'[1].pc = "ok"
          /\ root' \ root = {[id |-> req'[1].root_id,
                              value |-> Unwrap(r.rt).hash,
                              commitmentinfo |-> Unwrap(r.rt).commitment_info]}

(* C16: after any sequence of root_update calls the ids of the stored roots *)
(* are strictly increasing and dense (exactly 1..n, the first root with id  *)
(* 1), and every root_update of a new root returns the id under which the   *)
(* root has been stored.                                                    *)
C16_RootIdsDense == []C16_Inv /\ [][C16_Act]_vars

\* the third root_update of a new root has returned 3, and row 3 is there
C16_Witness ==
    /\ req[1].kind = "root_update" /\ req[1].pc = "ok" /\ req[1].root_id = 3
    /\ Cardinality(root) = 3
    /\ \E r \in root : r.id = 3
    /\ \E r \in root : r.id = 1

(* C17: root_update with a root that carries the id of a stored root and a  *)
(* commitment info fills commitment_info of the row with that id:           *)
(* afterwards get_root(id) has the commitment info, and the number of rows  *)
(* is unchanged.                                                            *)
C17_UpdateFillsCommitmentInfo ==
    [][LET r == req[1] IN
       (/\ r.kind = "root_update" /\ r.pc = "root_update_insert"
        /\ Unwrap(r.rt).id # <<>>
        /\ Unwrap(r.rt).commitment_info # <<>>
        /\ req'[1].pc = "ok")
       => /\ Cardinality(root') = Cardinality(root)
          /\ \E x \in root' : x.id = Unwrap(Unwrap(r.rt).id)
          /\ \A x \in root' :
                x.id = Unwrap(Unwrap(r.rt).id)
                => x.commitmentinfo = Unwrap(r.rt).commitment_info]_vars

(* C18: get_confirmed_smt_root returns the root with commitment info that   *)
(* has the largest id among the stored roots, and None when no stored root  *)
(* has commitment info or no root is stored.                                *)
C18_ConfirmedRootIsNewestConfirmed ==
    LET r == req[1]
        confirmed == {x \in root : x.commitmentinfo # <<>>}
    IN  (r.kind = "get_confirmed_smt_root" /\ r.pc \in {"ok", "err"})
        => /\ r.pc = "ok"
           /\ IF confirmed = {} THEN r.rt = <<>>
              ELSE \E x \in confirmed :
                      /\ \A y \in confirmed : y.id <= x.id
                      /\ r.rt = <<[id |-> <<x.id>>, hash |-> x.value,
                                   commitment_info |-> x.commitmentinfo]>>

\* three roots, the newest without commitment info, the second with: the call
\* has returned the second
C18_Witness ==
    /\ req[1].kind = "get_confirmed_smt_root" /\ req[1].pc = "ok"
    /\ req[1].rt # <<>>
    /\ req[1].rt[1].id = <<2>>
    /\ Cardinality(root) = 3
    /\ \E x \in root : x.id = 3 /\ x.commitmentinfo = <<>>
    /\ \E x \in root : x.id = 2 /\ x.commitmentinfo # <<>>

\* C19: the receiver's message for the secret o2 when the previous owner's
\* public share is o1_pub = o1*G: t2 = o1 * x1 * o2^-1
C19_HonestT2(o1, x1, o2) ==
    (o1 * x1 * (CHOOSE y \in Scalars : (o2 * y) % Q = 1)) % Q

\* C19, the key rotation step of a receiver
C19_Act ==
    LET r == req[1] IN
    (/\ r.kind = "receiver" /\ r.pc = "get_ecdsa_keypair"
     /\ HasRow(ecdsa, r.user_id)
     /\ IsSome(Row(ecdsa, r.user_id).party1private)
     /\ IsSome(Row(ecdsa, r.user_id).party2public))
    => LET s1 == Unwrap(Row(ecdsa, r.user_id).party1private)
           o1 == Unwrap(Row(ecdsa, r.user_id).party2public)
       IN \A o2 \in Scalars :
             LET t2 == C19_HonestT2(o1, r.x1, o2)
                 s2 == ComputeS2(t2, r.x1, s1)
             IN  /\ (o2 * s2) % Q = (o1 * s1) % Q
                 /\ P1EqualsP2(o1, s1, o2, s2)
                 /\ ReceiverGetEcdsaKeypair(1, t2, o2)
                    => /\ req'[1].err # "P1NotEqualP2"
                       /\ req'[1].pc = "err" => s2 >= Q \div 3
                       /\ req'[1].pc # "err"
                          => /\ req'[1].s2 = s2
                             /\ (o2 * req'[1].s2) % Q = (o1 * s1) % Q

(* C19: key invariance of the rotation: for the honest receiver message     *)
(* t2 = o1*x1*o2^-1 (mod q), o2_pub = o2*G, transfer_receiver computes      *)
(* s2 = t2*x1^-1*s1 with o2*s2 = o1*s1 (mod q), so the check P1 == P2       *)
(* passes (the request never fails with "P1 != P2") and the shared public   *)
(* key of the new shares equals the one of the old shares.                  *)
C19_KeyInvariance == [][C19_Act]_vars

\* a receiver is past the rotation with new shares for the same shared key
C19_Witness ==
    LET r == req[1] IN
    /\ r.kind = "receiver" /\ r.pc = "new_shared_key_id"
    /\ HasRow(ecdsa, r.user_id)
    /\ \E o2 \in O2Pubs :
          LET o1 == Unwrap(Row(ecdsa, r.user_id).party2public) IN
          /\ (o2 * r.s2) % Q = (o1 * r.s1) % Q
          /\ r.s2 = (C19_HonestT2(o1, r.x1, o2)
                       * (CHOOSE y \in Scalars : (r.x1 * y) % Q = 1) * r.s1) % Q

\* C20, in every state: the s2 of every transfer that was let through is
\* below q/3
C20_Inv ==
    LET r == req[1] IN
    /\ (r.kind = "receiver"
        /\ r.pc \notin {"get_transfer_data", "get_ecdsa_keypair", "ok", "err"})
       => r.s2 < Q \div 3
    /\ \A u \in userSession : u.s2 # <<>> => u.s2[1] < Q \div 3
    /\ \A b \in transferBatch :
          \A i \in 1..Len(b.finalizeddata) : b.finalizeddata[i].s2 < Q \div 3

\* C20, the steps of a receiver up to the check of s2
C20_Act ==
    LET r == req[1] IN
    /\ (r.kind = "receiver" /\ r.pc \in {"get_transfer_data", "get_ecdsa_keypair"})
       => UNCHANGED <<store, nextUuid>>
    /\ (/\ r.kind = "receiver" /\ r.pc = "get_ecdsa_keypair"
        /\ HasRow(ecdsa, r.user_id)
        /\ IsSome(Row(ecdsa, r.user_id).party1private)
        /\ IsSome(Row(ecdsa, r.user_id).party2public))
       => \A t2 \in Scalars, o2_pub \in O2Pubs :
             ReceiverGetEcdsaKeypair(1, t2, o2_pub)
             => LET x1_inv == CHOOSE y \in Scalars : (r.x1 * y) % Q = 1
                    s1 == Unwrap(Row(ecdsa, r.user_id).party1private)
                    s2 == (t2 * x1_inv * s1) % Q
                IN  /\ s2 >= Q \div 3
                       => req'[1].pc = "err" /\ req'[1].err = "InvalidO2"
                    /\ req'[1].pc # "err"
                       => s2 < Q \div 3 /\ req'[1].s2 = s2

(* C20: transfer_receiver rejects every request whose computed s2 is at     *)
(* least floor(q/3), with the "Invalid o2" error and before any store       *)
(* write; every transfer it lets through has s2 < floor(q/3).               *)
C20_S2BelowQThird == []C20_Inv /\ [][C20_Act]_vars

\* a receiver was turned away for its s2, with the TransferData and the owner
\* as the sender left them
C20_Witness ==
    /\ req[1].kind = "receiver" /\ req[1].pc = "err"
    /\ req[1].err = "InvalidO2"
    /\ HasRow(transfer, req[1].state_chain_id)
    /\ \E sc \in stateChain :
          sc.id = req[1].state_chain_id /\ sc.ownerid = req[1].user_id

(* C21 as stated: a successful transfer_sender advances locked_until of    *)
(* the state chain, so that the state chain is locked when the call         *)
(* returns.                                                                 *)
C21_SenderAdvancesLockedUntil ==
    [][LET r == req[1] IN
       (r.kind = "sender" /\ r.pc = "get_proof_key" /\ req'[1].pc = "ok")
       => \E sc \in stateChain' :
             sc.id = r.state_chain_id /\ sc.lockeduntil > now]_vars

\* C21, in every step of a transfer_sender
C21_Act ==
    LET r == req[1] IN
    (r.kind = "sender" /\ r.pc \notin {"ok", "err"})
    => /\ stateChain' = stateChain
       /\ (req'[1].pc = "ok")
          => \E sc \in stateChain' :
                /\ sc.id = r.state_chain_id /\ sc.ownerid = r.user_id
                /\ sc.lockeduntil <= now

(* C21 amended: transfer_sender only reads locked_until: no step of it      *)
(* writes the state chain, and when it succeeds locked_until is still at    *)
(* or before the current time, so the state chain is not locked by the      *)
(* transfer initiation.                                                     *)
C21_SenderKeepsLockedUntil == [][C21_Act]_vars

\* a sender has succeeded at a time later than the deposit, and locked_until
\* is still the time of the deposit
C21_Witness ==
    /\ req[1].kind = "sender" /\ req[1].pc = "ok"
    /\ HasRow(transfer, req[1].state_chain_id)
    /\ now > 0
    /\ \E sc \in stateChain :
          /\ sc.id = req[1].state_chain_id /\ sc.ownerid = req[1].user_id
          /\ sc.lockeduntil = 0

(* C22 as stated: a state chain that has just been created has             *)
(* locked_until strictly later than the time of its creation.               *)
C22_NewStateChainLocked ==
    [][\A sc \in stateChain' :
          (\A old \in stateChain : old.id # sc.id) => sc.lockeduntil > now']_vars

\* C22, in every step: the row of a new state chain, and the owner check of a
\* sender on a state chain that no batch has punished
C22_Act ==
    LET r == req[1] IN
    /\ \A sc \in stateChain' :
          (\A old \in stateChain : old.id # sc.id)
          => sc.lockeduntil = now' /\ Len(sc.chain) = 1
    /\ (/\ r.kind = "sender" /\ r.pc = "get_statechain_owner"
        /\ \E sc \in stateChain : sc.id = r.state_chain_id /\ sc.ownerid = r.user_id
        /\ \A b \in transferBatch :
              \A i \in 1..Len(b.punishedstatechains) :
                 b.punishedstatechains[i] # r.state_chain_id)
       => req'[1].pc = "create_transfer_insert"

(* C22 amended: a state chain is created with locked_until equal to the     *)
(* time of its creation, so it is not locked: a transfer_sender by its      *)
(* owner, at that time or later, passes the lock check (unless a batch      *)
(* timeout has punished the state chain since).                             *)
C22_NewStateChainNotLocked == [][C22_Act]_vars

\* the owner's transfer_sender has succeeded at the very time of the deposit
C22_Witness ==
    /\ req[1].kind = "sender" /\ req[1].pc = "ok"
    /\ HasRow(transfer, req[1].state_chain_id)
    /\ \E sc \in stateChain :
          /\ sc.id = req[1].state_chain_id /\ sc.ownerid = req[1].user_id
          /\ Len(sc.chain) = 1
          /\ sc.lockeduntil = now

\* C23, in every step
C23_Act ==
    LET r == req[1] IN
    \* a TransferData is created by the create_transfer of a sender only
    /\ \A t \in transfer' :
          (\A old \in transfer : old.id # t.id)
          => /\ r.kind = "sender" /\ r.pc = "create_transfer_insert"
             /\ t.id = r.state_chain_id
    \* a sender that succeeds leaves the TransferData of its state chain
    /\ (r.kind = "sender" /\ r.pc # "ok" /\ req'[1].pc = "ok")
       => \E t \in transfer' :
             /\ t.id = r.state_chain_id
             /\ t.statechainsig # <<>> /\ t.x1 # <<>>
    \* a receiver without batch_data that succeeds leaves none
    /\ (/\ r.kind = "receiver" /\ r.batch_id = 0
        /\ r.pc # "ok" /\ req'[1].pc = "ok")
       => \A t \in transfer' : t.id # r.state_chain_id
    \* the sender of the new owner: with no TransferData at its check, and the
    \* state chain not locked, no step of it fails
    /\ (/\ r.kind = "sender" /\ r.pc \notin {"ok", "err"}
        /\ \E sc \in stateChain :
              /\ sc.ownerid = r.user_id /\ Len(sc.chain) > 1
              /\ sc.lockeduntil <= now
              /\ r.pc \in {"check_user_auth", "transfer_is_completed"}
                 => \A t \in transfer : t.id # sc.id)
       => req'[1].pc # "err"

C24_Act ==
    LET r == req[1] IN
    \* the TransferData stays, unless the step is the remove_transfer_data of
    \* a transfer_finalize (of a receiver, or of the batch finalize) for it
    /\ \A t \in transfer :
          \/ \E u \in transfer' :
                u.id = t.id /\ (t.statechainsig # <<>> => u = t)
          \/ /\ r.kind = "receiver" /\ r.pc = "remove_transfer_data"
             /\ r.state_chain_id = t.id /\ req'[1].pc = "ok"
          \/ \E b \in transferBatch, c \in transferBatch' :
                /\ b.id = c.id /\ ~b.finalized /\ c.finalized
                /\ \E i \in 1..Len(b.finalizeddata) :
                      b.finalizeddata[i].state_chain_id = t.id
    \* a receiver that fails removes nothing
    /\ (r.kind = "receiver" /\ r.pc # "err" /\ req'[1].pc = "err")
       => transfer' = transfer
    \* a later sender for the state chain is turned away
    /\ (/\ r.kind = "sender" /\ r.pc = "transfer_is_completed"
        /\ \E t \in transfer : t.id = r.state_chain_id)
       => /\ req'[1].pc = "err"
          /\ req'[1].err = "TransferAlreadyCompleted"
          /\ UNCHANGED store

C25_FinalizeAllOrNothing ==
    [][\A w \in Workers :
          (/\ req[w].kind = "receiver"
           /\ req[w].pc \in {"get_statechain", "update_statechain_owner",
                             "init_user_session_insert",
                             "init_user_session_update", "update_backup_tx",
                             "update_smt", "root_get_current_id", "root_insert",
                             "remove_transfer_data"}
           /\ req'[w].pc = "err")
          => /\ \A sc \in stateChain' : sc.ownerid # req[w].new_id
             /\ \A u \in userSession' : u.id # req[w].new_id]_vars

(* C26: transfer_receiver authenticates the sender: it hands a state chain *)
(* over (and goes on to succeed) only if the shared_key_id of the request   *)
(* is the id of an existing user session that is the owner of the state     *)
(* chain.                                                                   *)
C26_ReceiverAuthenticatesOwner ==
    [][LET r == req[1] IN
       (/\ r.kind = "receiver" /\ r.pc = "update_statechain_owner"
        /\ stateChain' # stateChain)
       => /\ \E u \in userSession : u.id = r.user_id
          /\ \E sc \in stateChain :
                sc.id = r.state_chain_id /\ sc.ownerid = r.user_id]_vars

\* C27, in every state: a sender that is past its first two calls has a
\* session, and the session is bound to the state chain the request works on
C27_Inv ==
    LET r == req[1] IN
    (r.kind = "sender" /\ r.pc \notin {"check_user_auth", "ok", "err"})
    => \E u \in userSession :
          u.id = r.user_id /\ u.statechainid = <<r.state_chain_id>>

\* C27, the first step of a sender
C27_Act ==
    LET r == req[1] IN
    (r.kind = "sender" /\ r.pc = "check_user_auth")
    => /\ (\A u \in userSession : u.id # r.user_id)
          => /\ req'[1].pc = "err" /\ req'[1].err = "AuthError"
             /\ UNCHANGED store
       /\ (\E u \in userSession : u.id = r.user_id /\ u.statechainid = <<>>)
          => /\ req'[1].pc = "err" /\ req'[1].err = "NoDataForID"
             /\ UNCHANGED store

(* C27: a transfer_sender with a shared_key_id that has no user session     *)
(* fails with the authentication error, one whose session is bound to no    *)
(* state chain fails with the "No data for identifier" error, and neither   *)
(* creates a TransferData or writes anything else.                          *)
C27_UnknownSenderRejected == []C27_Inv /\ [][C27_Act]_vars

\* a sender with the session of a begun deposit has been turned away; no
\* TransferData has been created
C27_Witness ==
    /\ req[1].kind = "sender" /\ req[1].pc = "err"
    /\ req[1].err = "NoDataForID"
    /\ \E u \in userSession :
          u.id = req[1].user_id /\ u.statechainid = <<>> /\ u.proofkey # <<>>
    /\ transfer = {}

(* C28: a TransferBatch that has just been created has every one of its    *)
(* state chains flagged false, finalized = false, an empty finalized_data   *)
(* list, an empty punished list, and start_time equal to the time of its    *)
(* creation.                                                                *)
C28_NewBatchIsEmpty ==
    [][\A b \in transferBatch' :
          (\A old \in transferBatch : old.id # b.id)
          => /\ DOMAIN b.statechains # {}
             /\ \A sc \in DOMAIN b.statechains : b.statechains[sc] = FALSE
             /\ b.finalized = FALSE
             /\ b.finalizeddata = <<>>
             /\ b.punishedstatechains = <<>>
             /\ b.starttime = now /\ now' = now
             /\ UNCHANGED <<stateChain, transfer, userSession>>]_vars

\* a batch over both state chains, created after the clock has moved, before
\* any receiver has enrolled
C28_Witness ==
    /\ now > 0
    /\ \E b \in transferBatch :
          /\ b.starttime = now
          /\ DOMAIN b.statechains = BatchChains
          /\ \A sc \in BatchChains : ~b.statechains[sc]
          /\ Len(b.finalizeddata) = 0 /\ Len(b.punishedstatechains) = 0
          /\ ~b.finalized

\* C29: the fee_address in effect for a call of Config::load: the one of the
\* environment, else the one of the file, else the default
C29_FeeAddress(in) ==
    IF in.env.fee_address # <<>> THEN in.env.fee_address[1]
    ELSE IF in.file.fee_address # <<>> THEN in.file.fee_address[1]
    ELSE DefaultFeeAddress

(* C29: Config::load never returns a Config whose fee_address is not a      *)
(* valid address: when the settings can be read and the fee_address in      *)
(* effect is invalid the call panics, and a Config that is returned has     *)
(* the fee_address in effect, which is valid.                               *)
C29_InvalidFeeAddressIsFatal ==
    LET r == req[1] IN
    (r.kind = "config_load" /\ r.pc # "load")
    => LET in == r.rt[1] IN
       /\ (in.file.state # "malformed" /\ C29_FeeAddress(in) \notin ValidAddresses)
          => r.pc = "panic" /\ in.config = <<>>
       /\ r.pc = "ok"
          => /\ in.config # <<>>
             /\ in.config[1].fee_address = C29_FeeAddress(in)
             /\ in.config[1].fee_address \in ValidAddresses
       /\ r.pc # "ok" => in.config = <<>>

\* the file has a valid fee_address, the environment overrides it with an
\* invalid one: the call has panicked
C29_Witness ==
    /\ req[1].kind = "config_load" /\ req[1].pc = "panic"
    /\ req[1].rt[1].file.fee_address = <<"bcrt1q-other">>
    /\ req[1].rt[1].env.fee_address = <<"not-an-address">>
    /\ req[1].rt[1].config = <<>>

(* C30: two transfer_receiver requests without batch_data for the same      *)
(* state chain, executed concurrently: at most one succeeds, the chain is   *)
(* extended by exactly one entry, exactly one new UserSession is created,   *)
(* and owner_id is the new_shared_key_id returned to the successful caller. *)
C30_ConcurrentReceiversSerializable ==
    (/\ \A w \in Workers : req[w].kind = "receiver" /\ req[w].pc \in {"ok", "err"}
     /\ req[1].state_chain_id = req[2].state_chain_id)
    => LET id == req[1].state_chain_id
           sc == Row(stateChain, id)
           done == {w \in Workers : req[w].pc = "ok"}
       IN  /\ Cardinality(done) <= 1
           /\ Len(sc.chain) <= 2
           /\ Cardinality({u \in userSession :
                              u.id \in Uuids /\ u.statechainid = Some(id)}) <= 1
           /\ \A w \in done : sc.ownerid = req[w].new_id

(* C31: no lost enrollment: when two transfer_receiver requests for        *)
(* different state chains of one batch run concurrently and both return     *)
(* success, the batch has both state chains flagged true and holds the      *)
(* TransferFinalizeData of both.                                            *)
C31_NoLostEnrollment ==
    (/\ \A w \in Workers : req[w].kind = "receiver" /\ req[w].pc = "ok"
     /\ req[1].state_chain_id # req[2].state_chain_id)
    => \A b \in transferBatch :
          \A w \in Workers :
             /\ req[w].state_chain_id \in DOMAIN b.statechains
             /\ b.statechains[req[w].state_chain_id]
             /\ \E i \in 1..Len(b.finalizeddata) :
                   /\ b.finalizeddata[i].state_chain_id = req[w].state_chain_id
                   /\ b.finalizeddata[i].new_shared_key_id = req[w].new_id

\* C32, in every state: two root_update calls that have both returned have
\* returned different ids
C32_Inv ==
    (\A w \in Workers : req[w].kind = "root_update" /\ req[w].pc = "ok")
    => req[1].root_id # req[2].root_id

\* C32, in every step: the id a root_update of a new root returns is the id
\* of the row that holds the caller's hash
C32_Act ==
    \A w \in Workers :
       (/\ req[w].kind = "root_update" /\ req[w].pc = "root_update_insert"
        /\ req'[w].pc = "ok")
       => \E x \in root' :
             /\ x.id = req'[w].root_id
             /\ x.value = req[w].rt[1].hash
             /\ x \notin root

(* C32: for two concurrent root_update calls that insert new roots, the two *)
(* returned ids are distinct and each returned id identifies the row that   *)
(* holds the hash passed by that caller.                                    *)
C32_ConcurrentRootIds == []C32_Inv /\ [][C32_Act]_vars

(* C33: whenever transfer_sender returns an error, the state chain has no   *)
(* TransferData made by the failed request (a request refused because a     *)
(* transfer is already pending leaves that transfer's TransferData), so the *)
(* owner can call transfer_sender again.                                    *)
C33_Act ==
    \A w \in Workers :
       (/\ req[w].kind = "sender" /\ req[w].pc \notin {"err", "transfer_is_completed"}
        /\ req'[w].pc = "err")
       => ~(\E t \in transfer' : t.id = req[w].state_chain_id)

C33_SenderErrorLeavesNoTransferData == [][C33_Act]_vars

\* C34, the entries of a batch's finalized_data are for different state chains
C34_OneEntryPerChain(b) ==
    \A i, j \in 1..Len(b.finalizeddata) :
       b.finalizeddata[i].state_chain_id = b.finalizeddata[j].state_chain_id
          => i = j

(* C34: a batch that has not timed out holds at most one                    *)
(* TransferFinalizeData per state chain (a repeated successful              *)
(* transfer_receiver adds no second entry), and it has as many              *)
(* finalized_data entries as state chains flagged true.                     *)
C34_OneFinalizeDataPerChain ==
    \A b \in transferBatch :
       b.punishedstatechains = <<>> =>
       /\ C34_OneEntryPerChain(b)
       /\ Len(b.finalizeddata) =
             Cardinality({sc \in DOMAIN b.statechains : b.statechains[sc]})

(* C35: transfer_receiver never changes the membership of a batch: after    *)
(* every step of a transfer_receiver the key set of state_chains is the one *)
(* before the step, and a state chain that is no member is not enrolled.    *)
C35_Act ==
    (\E w \in Workers : req[w].kind = "receiver" /\ req'[w] # req[w])
    => \A b \in transferBatch :
          \E c \in transferBatch' :
             /\ c.id = b.id
             /\ DOMAIN c.statechains = DOMAIN b.statechains
             /\ \A i \in 1..Len(c.finalizeddata) :
                   c.finalizeddata[i].state_chain_id \in DOMAIN b.statechains

C35_ReceiverKeepsMembership == [][C35_Act]_vars

(* C36: every change of a state chain's owner_id is preceded by a           *)
(* successful transfer_sender of the then-current owner for that state      *)
(* chain, with no other change of its owner in between: at the step that    *)
(* changes the owner, the last transfer_sender request was for this state   *)
(* chain, by the owner being replaced, and returned Ok.                     *)
C36_Act ==
    \A sc \in stateChain, sd \in stateChain' :
       (sd.id = sc.id /\ sd.ownerid # sc.ownerid)
       => /\ req[1].kind = "sender" /\ req[1].pc = "ok"
          /\ req[1].state_chain_id = sc.id
          /\ req[1].user_id = sc.ownerid

C37_Act ==
    LET r == req[1] IN
    (/\ r.kind = "root_update" /\ r.pc = "root_update_id"
     /\ Unwrap(r.rt).id # <<>>
     /\ \/ ~(\E x \in root : x.id = Unwrap(Unwrap(r.rt).id))
        \/ \E x \in root : /\ x.id = Unwrap(Unwrap(r.rt).id)
                            /\ x.value # Unwrap(r.rt).hash)
    => /\ req'[1].pc = "err"
       /\ root' = root /\ rootSerial' = rootSerial

\* C37, in every step: a root_update that returns an error has inserted no row
C37_ErrAct ==
    (req[1].kind = "root_update" /\ req'[1].pc = "err") => root' = root

(* C37: root_update called with a root carrying an id fails and inserts no  *)
(* row when no root with that id exists or when the stored root's hash      *)
(* differs from the given root's hash.                                      *)
C37_RootUpdateIdChecked == [][C37_Act /\ C37_ErrAct]_vars

\* a root_update has been refused for its hash, with roots stored
C37_Witness ==
    /\ req[1].kind = "root_update" /\ req[1].pc = "err"
    /\ req[1].err = "RootHashMismatch"
    /\ Cardinality(root) >= 1

\* C38, the state chains of two tables agree in chain, amount and owner_id
C38_SameChains(a, b) ==
    /\ {sc.id : sc \in a} = {sc.id : sc \in b}
    /\ \A sc \in a, sd \in b :
          sc.id = sd.id => /\ sc.chain = sd.chain
                           /\ sc.amount = sd.amount
                           /\ sc.ownerid = sd.ownerid

\* C38, in every step of a transfer_sender: the state chains keep chain,
\* amount and owner_id; the user sessions, the roots and the batches are as
\* before; of the other tables only the TransferData of the request's state
\* chain may differ, and no TransferData is removed
C38_Act ==
    LET r == req[1] IN
    (r.kind = "sender" /\ req'[1] # r)
    => /\ C38_SameChains(stateChain, stateChain')
       /\ userSession' = userSession
       /\ root' = root /\ rootSerial' = rootSerial
       /\ transferBatch' = transferBatch
       /\ ecdsa' = ecdsa /\ backupTxs' = backupTxs
       /\ {t \in transfer' : t.id # r.state_chain_id}
             = {t \in transfer : t.id # r.state_chain_id}
       /\ {t.id : t \in transfer} \subseteq {t.id : t \in transfer'}

(* C38: transfer_sender, successful or not, leaves the state chain's chain, *)
(* amount and owner_id, all user sessions, all roots and all batches        *)
(* unchanged; its only store effect is creating the TransferData row.       *)
C38_SenderFrame == [][C38_Act]_vars

\* a transfer_sender has returned Ok with its TransferData stored, while a
\* batch and roots are stored
C38_Witness ==
    /\ req[1].kind = "sender" /\ req[1].pc = "ok"
    /\ \E t \in transfer : t.id = req[1].state_chain_id /\ t.statechainsig # <<>>
    /\ transferBatch # {} /\ root # {}

\* C39, in every step: a get, an update or a remove for an id that has no
\* row in its table returns the error of its kind, and no table is changed
C39_Act ==
    LET r == req'[1]
        id == r.state_chain_id
    IN
    (r # req[1] /\ r.kind \in {"get", "update", "remove"})
    => /\ (r.kind = "get" /\ ~(\E t \in transfer : t.id = id))
          => r.pc = "err" /\ r.err = "NoDataForID"
       /\ r.kind = "get" => transfer' = transfer /\ stateChain' = stateChain
       /\ (r.kind = "update" /\ ~(\E sc \in stateChain : sc.id = id))
          => /\ r.pc = "err" /\ r.err = "UpdateFailed"
             /\ transfer' = transfer /\ stateChain' = stateChain
       /\ (r.kind = "remove" /\ ~(\E t \in transfer : t.id = id))
          => /\ r.pc = "err" /\ r.err = "UpdateFailed"
             /\ transfer' = transfer /\ stateChain' = stateChain

(* C39: the generic store operations report a missing row as an error and   *)
(* change nothing: get on an id with no row returns NoDataForID, update and *)
(* remove on an id with no row return UpdateFailed (so remove_transfer_data *)
(* fails when no TransferData exists).                                      *)
C39_MissingRowIsError == [][C39_Act]_vars

\* remove_transfer_data has failed for a state chain without TransferData
\* while the other state chain has its TransferData
C39_Witness ==
    /\ req[1].kind = "remove" /\ req[1].pc = "err"
    /\ req[1].err = "UpdateFailed"
    /\ ~(\E t \in transfer : t.id = req[1].state_chain_id)
    /\ req[1].state_chain_id \in {sc.id : sc \in stateChain}
    /\ transfer # {}

====
